---- MODULE Spec2Model ----
(***************************************************************************)
(* The request-processing core that the Boson documentation describes:     *)
(* the route table and its matcher, the middleware chain, the dispatcher   *)
(* and the error boundary.  Strings that the matcher inspects (paths,      *)
(* literals, parameter values) are sequences of one-character strings, so  *)
(* that splitting on "/" and the constraints are computed, not assumed.    *)
(***************************************************************************)
EXTENDS Integers, Sequences, FiniteSets, TLC

VARIABLES
    routes,            \* the route table, in registration order
    lastMatch,         \* what the last direct resolve call was given and returned
    globalMiddleware,  \* the global middleware, in registration order
    req,               \* per request: method, path, headers of the request
    state,             \* per request: the lifecycle state
    match,             \* per request: the MatchResult of the dispatch
    chain,             \* per request: the effective chain of the dispatch
    depth,             \* per request: how many chain elements are waiting in next
    mode,              \* per request: what the chain does next
    nextCalls,         \* per request: per waiting element, its invocations of next
    response,          \* per request: the response travelling outward
    failure,           \* per request: the failure travelling outward
    final,             \* per request: the finalized response
    finalized,         \* per request: how many times a response was finalized
    cancelled,         \* per request: the caller's cancellation flag
    log,               \* per request: what executed, in order
    logger,            \* the calls the Logger collaborator received
    raised,            \* the error the last registration raised, if any
    rwlock,            \* the reader-writer lock of the route table
    builder,           \* a ResponseBuilder and the outcome of the last call on it
    seen,              \* per request: the attributes each chain element received
    room,              \* the chat room of the chat example and its connections
    api                \* the user service of the REST example and its request

vars == <<routes, lastMatch, globalMiddleware, req, state, match, chain, depth,
          mode, nextCalls, response, failure, final, finalized, cancelled, log,
          logger, raised, rwlock, builder, seen, room, api>>

\* What the dispatcher and plain registration leave alone.
componentVars == <<raised, rwlock, builder>>

routeVars == <<routes, lastMatch>>

\* What belongs to the example applications.
exampleVars == <<room, api>>

dispatchVars == <<globalMiddleware, req, state, match, chain, depth, mode,
                  nextCalls, response, failure, final, finalized, cancelled,
                  log, logger, seen>>

----------------------------------------------------------------------------
(* Bounds of the model. *)

MaxRoutes == 3

MaxMiddleware == 2

----------------------------------------------------------------------------
(* Text. *)

Digits == {"0", "1", "2", "3", "4", "5", "6", "7", "8", "9"}

Letters == {"a", "b", "c", "d", "e", "f", "g", "h", "i", "j", "k", "l", "m",
            "n", "o", "p", "q", "r", "s", "t", "u", "v", "w", "x", "y", "z"}

Slash == "/"

users == <<"u", "s", "e", "r", "s">>

admins == <<"a", "d", "m", "i", "n", "s">>

posts == <<"p", "o", "s", "t", "s">>

abc == <<"a", "b", "c">>

n42 == <<"4", "2">>

files == <<"f", "i", "l", "e", "s">>

segA == <<"a">>

segB == <<"b">>

ctxt == <<"c", ".", "t", "x", "t">>

products == <<"p", "r", "o", "d", "u", "c", "t", "s">>

segX == <<"x">>

minus == <<"-">>

minus42 == <<"-", "4", "2">>

n4minus2 == <<"4", "-", "2">>

RECURSIVE PathOf(_)
\* The path whose segments are segs: "/" before each segment.
PathOf(segs) ==
    IF segs = <<>> THEN <<>>
    ELSE <<Slash>> \o Head(segs) \o PathOf(Tail(segs))

RootPath == <<Slash>>

----------------------------------------------------------------------------
(* Segments of a pattern. *)

NoConstraint == "none"

Literal(text) == [tag |-> "Literal", text |-> text]

Named(identifier, constraint) ==
    [tag |-> "Named", identifier |-> identifier, constraint |-> constraint]

\* A segment that every path must contain.
OptionalRequired(inner) == inner

Optional(inner) == [tag |-> "Optional", inner |-> inner]

Wildcard(identifier) == [tag |-> "Wildcard", identifier |-> identifier]

\* /users/{id}
PatUsersId == <<Literal(users), Named("id", NoConstraint)>>

\* /users/{id:int}
PatUsersIdInt == <<Literal(users), Named("id", "int")>>

\* /users/{slug:alpha}
PatUsersSlugAlpha == <<Literal(users), Named("slug", "alpha")>>

\* /users/admins
PatUsersAdmins == <<Literal(users), Literal(admins)>>

\* /files/*path
PatFilesWild == <<Literal(files), Wildcard("path")>>

\* /
PatRoot == <<>>

\* /products[/{category}]
PatProductsOptional == <<Literal(products), Optional(Named("category", NoConstraint))>>

\* /users/{userId}/posts/{postId}
PatUserPosts == <<Literal(users), Named("userId", NoConstraint), Literal(posts),
                  Named("postId", NoConstraint)>>

----------------------------------------------------------------------------
(* Parameter Matcher. *)

RECURSIVE SplitFrom(_, _, _)
\* The pieces of s after the pieces done and the piece cur that is open.
SplitFrom(s, done, cur) ==
    IF s = <<>> THEN Append(done, cur)
    ELSE IF Head(s) = Slash
    THEN SplitFrom(Tail(s), Append(done, cur), <<>>)
    ELSE SplitFrom(Tail(s), done, Append(cur, Head(s)))

\* s split on "/": the pieces between the slashes, empty pieces kept.
Split(s) == SplitFrom(s, <<>>, <<>>)

RECURSIVE StripEveryTrailingSlash(_)
\* Every trailing slash is stripped, down to the root path.
StripEveryTrailingSlash(path) ==
    IF Len(path) > 1 /\ path[Len(path)] = Slash
    THEN StripEveryTrailingSlash(SubSeq(path, 1, Len(path) - 1))
    ELSE path

\* Exactly one trailing slash is stripped, except for the root path.
StripTrailingSlash(path) ==
    IF Len(path) > 1 /\ path[Len(path)] = Slash
    THEN SubSeq(path, 1, Len(path) - 1)
    ELSE path

\* The segments of a path: the pieces after its leading slash; the root
\* path has none.
Segments(path) ==
    LET p == StripTrailingSlash(path)
    IN  IF p = RootPath \/ p = <<>> THEN <<>>
        ELSE IF Head(p) = Slash THEN Tail(Split(p)) ELSE Split(p)

AllIn(seg, chars) == \A i \in 1..Len(seg) : seg[i] \in chars

\* An int constraint that lets one "-" lead the digits.
IntConstraintSigned(seg) ==
    /\ seg # <<>>
    /\ \/ AllIn(seg, Digits)
       \/ Head(seg) = "-" /\ Tail(seg) # <<>> /\ AllIn(Tail(seg), Digits)

\* int that any segment satisfies.
IntConstraintAny(seg) == seg # <<>>

\* int: digits only.
IntConstraint(seg) == seg # <<>> /\ AllIn(seg, Digits)

\* alpha: alphabetic characters only.
AlphaConstraint(seg) == seg # <<>> /\ AllIn(seg, Letters)

ConstraintIgnored(constraint, seg) == TRUE

ConstraintOK(constraint, seg) ==
    CASE constraint = "int"   -> IntConstraint(seg)
      [] constraint = "alpha" -> AlphaConstraint(seg)
      [] OTHER                -> TRUE

\* The segments run together, without the slashes between them.
JoinSegmentsFlat(segs) ==
    IF Len(segs) = 1 THEN Head(segs)
    ELSE Head(segs) \o Head(Tail(segs)) \o
         (IF Len(segs) = 2 THEN <<>> ELSE segs[3])

RECURSIVE JoinSegments(_)
JoinSegments(segs) ==
    IF Len(segs) = 1 THEN Head(segs)
    ELSE Head(segs) \o <<Slash>> \o JoinSegments(Tail(segs))

NoParams == [x \in {} |-> <<>>]

NoMatch == [matched |-> FALSE, params |-> NoParams]

RECURSIVE Bind(_, _)
\* The pattern against the path segments, left to right.
Bind(pattern, segs) ==
    IF pattern = <<>>
    THEN IF segs = <<>> THEN [matched |-> TRUE, params |-> NoParams] ELSE NoMatch
    ELSE LET s == Head(pattern)
         IN  CASE s.tag = "Literal" ->
                    IF segs # <<>> /\ Head(segs) = s.text
                    THEN Bind(Tail(pattern), Tail(segs))
                    ELSE NoMatch
               [] s.tag = "Named" ->
                    IF segs # <<>> /\ ConstraintOK(s.constraint, Head(segs))
                    THEN LET rest == Bind(Tail(pattern), Tail(segs))
                         IN  IF rest.matched
                             THEN [matched |-> TRUE,
                                   params |-> (s.identifier :> Head(segs)) @@ rest.params]
                             ELSE NoMatch
                    ELSE NoMatch
               [] s.tag = "Optional" ->
                    IF segs = <<>>
                    THEN [matched |-> TRUE, params |-> NoParams]
                    ELSE Bind(<<s.inner>> \o Tail(pattern), segs)
               [] s.tag = "Wildcard" ->
                    IF segs # <<>>
                    THEN [matched |-> TRUE,
                          params |-> (s.identifier :> JoinSegments(segs))]
                    ELSE NoMatch

----------------------------------------------------------------------------
(* Route Table. *)

Methods == {"GET", "POST"}

DefaultPriority == 0

Priorities == {-5, 0, 10}

Route(method, pattern, handler, middleware) ==
    [method |-> method, pattern |-> pattern, handler |-> handler,
     middleware |-> middleware, name |-> "", priority |-> DefaultPriority]

\* A candidate whatever the method of the request.
MatchesAnyMethod(table, i, method, segs) == Bind(table[i].pattern, segs).matched

\* Route i of the table is a candidate for the method and the path segments.
Matches(table, i, method, segs) ==
    /\ table[i].method = method
    /\ Bind(table[i].pattern, segs).matched

\* The order of definition alone.
PrecedesByDefinition(table, i, j) == i <= j

PrecedesLaterFirst(table, i, j) ==
    \/ table[i].priority > table[j].priority
    \/ table[i].priority = table[j].priority /\ i >= j

\* Route i is tried before route j: the higher priority first, and in the
\* order of definition among routes of one priority.
Precedes(table, i, j) ==
    \/ table[i].priority > table[j].priority
    \/ table[i].priority = table[j].priority /\ i <= j

Unresolved == [matched |-> FALSE, params |-> NoParams, route |-> 0]

\* The first candidate for the method and the path segments.
resolveSegments(table, method, segs) ==
    LET Cands == {i \in 1..Len(table) : Matches(table, i, method, segs)}
    IN  IF Cands = {} THEN Unresolved
        ELSE LET first == CHOOSE i \in Cands :
                              \A j \in Cands : Precedes(table, i, j)
             IN  [matched |-> TRUE,
                  params |-> Bind(table[first].pattern, segs).params,
                  route |-> first]

resolve(table, method, path) ==
    LET segs == Segments(path)
    IN  resolveSegments(table, method, segs)

----------------------------------------------------------------------------
(* Operations on the route table. *)

NoCall == [method |-> "", path |-> <<>>, result |-> Unresolved]

NoError == "none"

\* Nobody reads the table and nobody writes it.
Unlocked == [readers |-> {}, writer |-> FALSE]

\* A ResponseBuilder on which nothing was called yet.  sends: how many times
\* it was sent.  error: the outcome of the last call on it.
NoBuilder == [status |-> 0, headers |-> {}, body |-> "", sent |-> FALSE,
              sends |-> 0, error |-> NoError]

\* A MatchResult is discarded with its request: none outlives a change of
\* the table.
register(method, pattern, handler, middleware) ==
    /\ routes' = Append(routes, Route(method, pattern, handler, middleware))
    /\ lastMatch' = NoCall

\* .priority(n), chained to the registration of the last route.
priority(n) ==
    /\ routes # <<>>
    /\ routes' = [routes EXCEPT ![Len(routes)].priority = n]
    /\ lastMatch' = NoCall

Resolve(method, path) ==
    /\ lastMatch' = [method |-> method, path |-> path,
                     result |-> resolve(routes, method, path)]
    /\ UNCHANGED routes

----------------------------------------------------------------------------
(* The chat example: ChatRoom, shared by the connections of the server. *)

Connections == {"c1", "c2", "c3"}

\* A broadcast call: its sender, the participants of the room when the call
\* got the mutex, the participants its loop has visited, and how many times
\* deliver was called on each connection.
Message(sender, members) ==
    [sender |-> sender, members |-> members, visited |-> {},
     delivered |-> [p \in Connections |-> 0]]

NoMessage == Message("nobody", {})

\* participants, locked: participants_ and mutex_ of ChatRoom.  inside: the
\* connections whose call is past its lock_guard.  pc: where the call of
\* each connection stands.  running: the broadcast call of each connection.
\* last: the broadcast call that returned last.
NewRoom ==
    [participants |-> {}, locked |-> FALSE, inside |-> {},
     pc |-> [c \in Connections |-> "idle"],
     running |-> [c \in Connections |-> NoMessage],
     last |-> NoMessage]

RoomCalls == {"join", "leave", "broadcast"}

\* A connection calls join, leave or broadcast, for itself.
RoomCall(c, op) ==
    /\ room.pc[c] = "idle"
    /\ room' = [room EXCEPT !.pc[c] = op]

\* The state of the room when the call of c is past its lock_guard.
Locked(c) ==
    LET held == [room EXCEPT !.locked = TRUE, !.inside = @ \cup {c}]
    IN  CASE room.pc[c] = "join"  -> [held EXCEPT !.pc[c] = "joinLocked"]
          [] room.pc[c] = "leave" -> [held EXCEPT !.pc[c] = "leaveLocked"]
          [] OTHER ->
                [held EXCEPT !.pc[c] = "broadcastLocked",
                             !.running[c] = Message(c, room.participants)]

\* A lock_guard that does not wait for the mutex.
lock_guardUnguarded(c) ==
    /\ room.pc[c] \in RoomCalls
    /\ room' = Locked(c)

\* std::lock_guard<std::mutex> lock(mutex_): the call waits for the mutex.
lock_guard(c) ==
    /\ room.pc[c] \in RoomCalls
    /\ ~room.locked
    /\ room' = Locked(c)

\* The end of the scope of the lock_guard.
Released(rm, c) ==
    [rm EXCEPT !.locked = FALSE, !.inside = @ \ {c}, !.pc[c] = "idle"]

join(c) ==
    /\ room.pc[c] = "joinLocked"
    /\ room' = Released([room EXCEPT !.participants = @ \cup {c}], c)

leave(c) ==
    /\ room.pc[c] = "leaveLocked"
    /\ room' = Released([room EXCEPT !.participants = @ \ {c}], c)

\* The broadcast call of c returns.
Returned(c) ==
    Released([room EXCEPT !.last = room.running[c],
                          !.running[c] = NoMessage], c)

\* One turn of the loop of broadcast over participants_, or its end.
broadcast(c) ==
    /\ room.pc[c] = "broadcastLocked"
    /\ LET rest == room.participants \ room.running[c].visited
       IN  IF rest # {}
           THEN \E p \in rest :
                    room' = [room EXCEPT
                                !.running[c].visited = @ \cup {p},
                                !.running[c].delivered[p] =
                                    IF p # c THEN @ + 1 ELSE @]
           ELSE room' = Returned(c)

roomFrame == <<routeVars, dispatchVars, componentVars, api>>

ChatCall ==
    /\ \E c \in Connections, op \in RoomCalls : RoomCall(c, op)
    /\ UNCHANGED roomFrame

ChatLock ==
    /\ \E c \in Connections : lock_guard(c)
    /\ UNCHANGED roomFrame

ChatJoin ==
    /\ \E c \in Connections : join(c)
    /\ UNCHANGED roomFrame

ChatLeave ==
    /\ \E c \in Connections : leave(c)
    /\ UNCHANGED roomFrame

ChatBroadcast ==
    /\ \E c \in Connections : broadcast(c)
    /\ UNCHANGED roomFrame

ChatNext == ChatCall \/ ChatLock \/ ChatJoin \/ ChatLeave \/ ChatBroadcast

----------------------------------------------------------------------------
(* The REST example: AuthMiddleware, UserService and the handler of        *)
(* DELETE /api/users/:id.                                                   *)

BearerPrefix == <<"B", "e", "a", "r", "e", "r", " ">>

admin_token == <<"a", "d", "m", "i", "n", "_", "t", "o", "k", "e", "n">>

user_token == <<"u", "s", "e", "r", "_", "t", "o", "k", "e", "n">>

guest_token == <<"g", "u", "e", "s", "t", "_", "t", "o", "k", "e", "n">>

bearerLower == <<"b", "e", "a", "r", "e", "r", " ">>

BearerWord == <<"B", "e", "a", "r", "e", "r">>

one == <<"1">>

two == <<"2">>

seven == <<"7">>

\* token.starts_with(prefix)
starts_with(token, prefix) ==
    /\ Len(token) >= Len(prefix)
    /\ SubSeq(token, 1, Len(prefix)) = prefix

\* token.substr(pos): what follows the first pos characters.
substr(token, pos) == SubSeq(token, pos + 1, Len(token))

\* The static tokenStore of validateToken: the user of each token.
tokenStore ==
    (user_token :> [id |-> 2, roles |-> {"user"}]) @@
    (admin_token :> [id |-> 1, roles |-> {"admin", "user"}])

NoContext == [id |-> 0, roles |-> {}]

\* validateToken: the user of the token; NoContext stands for the
\* std::runtime_error("Invalid token") that it throws.
validateToken(token) ==
    IF token \in DOMAIN tokenStore THEN tokenStore[token] ELSE NoContext

\* What a middleware of the route did: the status it wrote, 0 when it wrote
\* none and invoked next, and the user in the context of the request.
Verdict(status, user) == [status |-> status, user |-> user]

\* AuthMiddleware::authenticate
authenticate(authorization) ==
    IF authorization = <<>> \/ ~starts_with(authorization, BearerPrefix)
    THEN Verdict(401, NoContext)
    ELSE LET actualToken == substr(authorization, 7)
             user == validateToken(actualToken)
         IN  IF user = NoContext THEN Verdict(401, NoContext)
             ELSE Verdict(0, user)

\* A role check that every authenticated user passes.
requireRoleOfNobody(roles, user) ==
    IF user = NoContext THEN Verdict(401, user) ELSE Verdict(0, user)

\* AuthMiddleware::requireRole(roles)
requireRole(roles, user) ==
    IF user = NoContext THEN Verdict(401, user)
    ELSE IF roles \cap user.roles = {} THEN Verdict(403, user)
    ELSE Verdict(0, user)

DigitValue(ch) ==
    CASE ch = "0" -> 0 [] ch = "1" -> 1 [] ch = "2" -> 2 [] ch = "3" -> 3
      [] ch = "4" -> 4 [] ch = "5" -> 5 [] ch = "6" -> 6 [] ch = "7" -> 7
      [] ch = "8" -> 8 [] ch = "9" -> 9

RECURSIVE LeadingDigits(_)
LeadingDigits(text) ==
    IF text = <<>> \/ Head(text) \notin Digits THEN <<>>
    ELSE <<Head(text)>> \o LeadingDigits(Tail(text))

RECURSIVE Decimal(_)
Decimal(digits) ==
    IF digits = <<>> THEN 0
    ELSE 10 * Decimal(SubSeq(digits, 1, Len(digits) - 1))
         + DigitValue(digits[Len(digits)])

\* std::stoi of an unsigned text: the number of its leading digits; -1
\* stands for the std::invalid_argument that it throws when there are none.
stoi(text) ==
    IF LeadingDigits(text) = <<>> THEN -1 ELSE Decimal(LeadingDigits(text))

\* UserService::deleteUser: the list without the user of the id.
Erased(list, id) == SelectSeq(list, LAMBDA u : u # id)

\* UserService after its constructor, which adds the users 1 and 2, and no
\* request.  users: the ids of the stored users.  pc: the element of the
\* chain of the request that runs next.  ran: deleteUser of the controller
\* executed.  arrival: the stored users when the request arrived.
NewApi ==
    [users |-> <<1, 2>>, pc |-> "idle", authorization |-> <<>>, id |-> <<>>,
     context |-> NoContext, status |-> 0, ran |-> FALSE,
     arrival |-> <<1, 2>>]

\* DELETE /api/users/:id arrives.
apiDelete(authorization, id) ==
    /\ api.pc = "idle"
    /\ api' = [api EXCEPT !.pc = "authenticate",
                          !.authorization = authorization, !.id = id,
                          !.context = NoContext, !.status = 0,
                          !.ran = FALSE, !.arrival = api.users]

\* A middleware of the route ran: it wrote a status, or it invoked next.
Passed(verdict, next) ==
    IF verdict.status # 0
    THEN [api EXCEPT !.pc = "done", !.status = verdict.status]
    ELSE [api EXCEPT !.pc = next, !.context = verdict.user]

AdminOnly == {"admin"}

\* UserController::deleteUser
deleteUser ==
    /\ api.pc = "deleteUser"
    /\ LET id == stoi(api.id)
       IN  api' = [api EXCEPT
                      !.pc = "done",
                      !.ran = TRUE,
                      !.status = IF id = -1 THEN 400
                                 ELSE IF \A k \in DOMAIN api.users :
                                             api.users[k] # id
                                 THEN 404 ELSE 200,
                      !.users = IF id = -1 THEN @ ELSE Erased(@, id)]

apiFrame == <<routeVars, dispatchVars, componentVars, room>>

ApiAuthorizations ==
    {<<>>, admin_token, BearerPrefix \o admin_token,
     BearerPrefix \o user_token, BearerPrefix \o guest_token,
     bearerLower \o admin_token, BearerWord \o admin_token}

ApiIds == {one, two, seven, abc}

ApiDelete ==
    /\ \E a \in ApiAuthorizations, id \in ApiIds : apiDelete(a, id)
    /\ UNCHANGED apiFrame

ApiAuthenticate ==
    /\ api.pc = "authenticate"
    /\ api' = Passed(authenticate(api.authorization), "requireRole")
    /\ UNCHANGED apiFrame

ApiRequireRole ==
    /\ api.pc = "requireRole"
    /\ api' = Passed(requireRole(AdminOnly, api.context), "deleteUser")
    /\ UNCHANGED apiFrame

ApiDeleteUser ==
    /\ deleteUser
    /\ UNCHANGED apiFrame

\* The response was sent.
ApiSend ==
    /\ api.pc = "done"
    /\ api' = [api EXCEPT !.pc = "idle"]
    /\ UNCHANGED apiFrame

ApiNext ==
    ApiDelete \/ ApiAuthenticate \/ ApiRequireRole \/ ApiDeleteUser \/ ApiSend

----------------------------------------------------------------------------
(* The route table on its own: any registrations, any resolve calls. *)

RoutePatterns == {PatUsersAdmins, PatUsersId, PatUsersIdInt}

RoutePaths == {PathOf(<<users, n42>>), PathOf(<<users, abc>>),
               PathOf(<<users, admins>>), PathOf(<<posts>>)}

RouteRequests ==
    {<<"GET", p>> : p \in RoutePaths} \cup {<<"POST", PathOf(<<users, abc>>)>>}

RouteInit ==
    /\ routes = <<>>
    /\ lastMatch = NoCall
    /\ globalMiddleware = <<>>
    /\ req = <<>>
    /\ state = <<>>
    /\ match = <<>>
    /\ chain = <<>>
    /\ depth = <<>>
    /\ mode = <<>>
    /\ nextCalls = <<>>
    /\ response = <<>>
    /\ failure = <<>>
    /\ final = <<>>
    /\ finalized = <<>>
    /\ cancelled = <<>>
    /\ log = <<>>
    /\ logger = <<>>
    /\ raised = NoError
    /\ rwlock = Unlocked
    /\ builder = NoBuilder
    /\ seen = <<>>
    /\ room = NewRoom
    /\ api = NewApi

RouteRegister ==
    /\ Len(routes) < MaxRoutes
    /\ \E m \in Methods, p \in RoutePatterns : register(m, p, "ok", <<>>)
    /\ UNCHANGED <<dispatchVars, exampleVars>>
    /\ UNCHANGED componentVars

RoutePriority ==
    /\ \E n \in Priorities : priority(n)
    /\ UNCHANGED <<dispatchVars, exampleVars>>
    /\ UNCHANGED componentVars

\* One caller: it resolves, looks at the MatchResult and discards it.
RouteResolve ==
    /\ lastMatch = NoCall
    /\ \E c \in RouteRequests : Resolve(c[1], c[2])
    /\ UNCHANGED <<dispatchVars, exampleVars>>
    /\ UNCHANGED componentVars

RouteDiscard ==
    /\ lastMatch # NoCall
    /\ lastMatch' = NoCall
    /\ UNCHANGED routes
    /\ UNCHANGED <<dispatchVars, exampleVars>>
    /\ UNCHANGED componentVars

RouteNext == RouteRegister \/ RoutePriority \/ RouteResolve \/ RouteDiscard

RouteSpec == RouteInit /\ [][RouteNext]_vars

----------------------------------------------------------------------------
(* The chat example, with any calls from its connections. *)

ChatSpec == RouteInit /\ [][ChatNext]_vars

----------------------------------------------------------------------------
(* The REST example, with any DELETE requests for users. *)

ApiSpec == RouteInit /\ [][ApiNext]_vars

----------------------------------------------------------------------------
(* Registration while resolve calls run: the reader-writer lock. *)

\* The workers that call resolve.
Workers == {"w1", "w2"}

\* The value of a field that the registration has not written yet.
Unset == "unset"

RouteNames == {"", "user.profile"}

PartiallyRegistered(rt) == rt.handler = Unset \/ rt.name = Unset

\* A worker takes the lock for reading although a registration holds it.
AcquireReadUnguarded(w) ==
    /\ w \notin rwlock.readers
    /\ rwlock' = [rwlock EXCEPT !.readers = @ \cup {w}]
    /\ UNCHANGED routeVars

\* A worker takes the lock for reading: no registration is writing.
AcquireRead(w) ==
    /\ w \notin rwlock.readers
    /\ ~rwlock.writer
    /\ rwlock' = [rwlock EXCEPT !.readers = @ \cup {w}]
    /\ UNCHANGED routeVars

\* The resolve call of a worker that holds the lock for reading.
ReadResolve(w, method, path) ==
    /\ w \in rwlock.readers
    /\ Resolve(method, path)
    /\ rwlock' = [rwlock EXCEPT !.readers = @ \ {w}]

\* A registration takes the lock for writing and puts the method and the
\* pattern of the new route in the table.
BeginRegister(method, pattern) ==
    /\ ~rwlock.writer
    /\ rwlock.readers = {}
    /\ rwlock' = [rwlock EXCEPT !.writer = TRUE]
    /\ routes' = Append(routes, [Route(method, pattern, Unset, <<>>)
                                     EXCEPT !.name = Unset])
    /\ UNCHANGED lastMatch

\* The registration writes the handler and the local middleware.
WriteHandler(handler, middleware) ==
    /\ rwlock.writer
    /\ routes[Len(routes)].handler = Unset
    /\ routes' = [routes EXCEPT ![Len(routes)].handler = handler,
                                ![Len(routes)].middleware = middleware]
    /\ UNCHANGED <<lastMatch, rwlock>>

\* The registration writes the name, which completes the route, and gives
\* the lock back.
EndRegister(name) ==
    /\ rwlock.writer
    /\ routes[Len(routes)].handler # Unset
    /\ routes' = [routes EXCEPT ![Len(routes)].name = name]
    /\ rwlock' = [rwlock EXCEPT !.writer = FALSE]
    /\ UNCHANGED lastMatch

LockPatterns == {PatUsersId, PatUsersAdmins}

\* The local middleware of a route registered after startup.
LockMiddleware == {<<>>, <<"Auth">>}

LockRequests == {<<"GET", PathOf(<<users, n42>>)>>,
                 <<"GET", PathOf(<<users, admins>>)>>,
                 <<"GET", PathOf(<<posts>>)>>}

LockRead ==
    /\ \E w \in Workers :
           \/ AcquireRead(w)
           \/ \E c \in LockRequests : ReadResolve(w, c[1], c[2])
    /\ UNCHANGED <<dispatchVars, exampleVars, raised, builder>>

LockWrite ==
    /\ \/ /\ Len(routes) < MaxRoutes
          /\ \E p \in LockPatterns : BeginRegister("GET", p)
       \/ \E k \in LockMiddleware : WriteHandler("ok", k)
       \/ \E n \in RouteNames : EndRegister(n)
    /\ UNCHANGED <<dispatchVars, exampleVars, raised, builder>>

LockNext == LockRead \/ LockWrite

LockSpec == RouteInit /\ [][LockNext]_vars

----------------------------------------------------------------------------
(* Named routes, and routes registered twice. *)

Names(table) == {table[i].name : i \in 1..Len(table)} \ {""}

\* The registration keeps a route whose name another route bears.
registerNamedUnchecked(method, pattern, handler, middleware, routeName) ==
    /\ routes' = Append(routes, [Route(method, pattern, handler, middleware)
                                     EXCEPT !.name = routeName])
    /\ lastMatch' = NoCall
    /\ raised' = NoError

\* The registration replaces the route registered for the same method and
\* pattern, as a table keyed by the pair does.
registerNamedReplacing(method, pattern, handler, middleware, routeName) ==
    LET new == [Route(method, pattern, handler, middleware)
                    EXCEPT !.name = routeName]
        same == {i \in 1..Len(routes) :
                     routes[i].method = method /\ routes[i].pattern = pattern}
    IN  IF routeName \in Names(routes)
        THEN /\ raised' = "DuplicateNameError"
             /\ UNCHANGED routeVars
        ELSE /\ routes' = IF same = {} THEN Append(routes, new)
                          ELSE [routes EXCEPT ![CHOOSE i \in same : TRUE] = new]
             /\ lastMatch' = NoCall
             /\ raised' = NoError

\* The registration of a route with .name(routeName) chained to it; the
\* empty name is the registration of a route without a name.
registerNamed(method, pattern, handler, middleware, routeName) ==
    IF routeName \in Names(routes)
    THEN /\ raised' = "DuplicateNameError"
         /\ UNCHANGED routeVars
    ELSE /\ routes' = Append(routes, [Route(method, pattern, handler, middleware)
                                          EXCEPT !.name = routeName])
         /\ lastMatch' = NoCall
         /\ raised' = NoError

NamedRouteNames == {"", "user.profile", "user.list"}

NamedHandlers == {"ok", "empty"}

NamedPriorities == {DefaultPriority, 10}

NamedRequests == {<<"GET", PathOf(<<users, n42>>)>>, <<"GET", PathOf(<<posts>>)>>}

NamedRegister ==
    /\ Len(routes) < MaxRoutes
    /\ \E h \in NamedHandlers, n \in NamedRouteNames :
           registerNamed("GET", PatUsersId, h, <<>>, n)
    /\ UNCHANGED <<dispatchVars, exampleVars, rwlock, builder>>

NamedPriority ==
    /\ \E n \in NamedPriorities : priority(n)
    /\ UNCHANGED <<dispatchVars, exampleVars>>
    /\ UNCHANGED componentVars

NamedResolve ==
    /\ lastMatch = NoCall
    /\ \E c \in NamedRequests : Resolve(c[1], c[2])
    /\ UNCHANGED <<dispatchVars, exampleVars>>
    /\ UNCHANGED componentVars

NamedNext == NamedRegister \/ NamedPriority \/ NamedResolve \/ RouteDiscard

NamedSpec == RouteInit /\ [][NamedNext]_vars

----------------------------------------------------------------------------
(* Paths: wildcards and trailing slashes. *)

PathPatterns == {PatRoot, PatFilesWild, PatUsersId}

\* Paths without a trailing slash.
BasePaths == {PathOf(<<files>>), PathOf(<<files, segA>>), PathOf(<<files, segA, segB>>),
              PathOf(<<files, segA, segB, ctxt>>), PathOf(<<users, n42>>)}

TrailingSlashes == {<<>>, <<Slash>>, <<Slash, Slash>>}

PathRegister ==
    /\ Len(routes) < MaxRoutes
    /\ \E p \in PathPatterns : register("GET", p, "ok", <<>>)
    /\ UNCHANGED <<dispatchVars, exampleVars>>
    /\ UNCHANGED componentVars

PathResolve ==
    /\ lastMatch = NoCall
    /\ \/ Resolve("GET", RootPath)
       \/ \E p \in BasePaths, t \in TrailingSlashes : Resolve("GET", p \o t)
    /\ UNCHANGED <<dispatchVars, exampleVars>>
    /\ UNCHANGED componentVars

PathNext == PathRegister \/ PathResolve \/ RouteDiscard

PathSpec == RouteInit /\ [][PathNext]_vars

----------------------------------------------------------------------------
(* Optional parameters. *)

\* request.hasParam(name)
hasParam(params, name) == name \in DOMAIN params

OptionalPatterns == {PatProductsOptional, PatUsersId, PatRoot}

OptionalPaths == {PathOf(<<products>>), PathOf(<<products, segX>>),
                  PathOf(<<products, segX, segA>>), PathOf(<<users, n42>>),
                  RootPath}

OptionalRegister ==
    /\ Len(routes) < MaxRoutes
    /\ \E p \in OptionalPatterns : register("GET", p, "ok", <<>>)
    /\ UNCHANGED <<dispatchVars, exampleVars>>
    /\ UNCHANGED componentVars

OptionalResolve ==
    /\ lastMatch = NoCall
    /\ \E p \in OptionalPaths : Resolve("GET", p)
    /\ UNCHANGED <<dispatchVars, exampleVars>>
    /\ UNCHANGED componentVars

OptionalNext == OptionalRegister \/ OptionalResolve \/ RouteDiscard

OptionalSpec == RouteInit /\ [][OptionalNext]_vars

----------------------------------------------------------------------------
(* Routes with parameters. *)

BindPatterns == {PatUserPosts, PatUsersId, PatUsersIdInt, PatProductsOptional}

BindRequests ==
    {<<"GET", PathOf(<<users, n42>>)>>, <<"GET", PathOf(<<users, abc>>)>>,
     <<"GET", PathOf(<<users, n42, posts, abc>>)>>,
     <<"GET", PathOf(<<products>>)>>, <<"GET", PathOf(<<products, segX>>)>>,
     <<"POST", PathOf(<<users, n42>>)>>}

BindRegister ==
    /\ Len(routes) < MaxRoutes
    /\ \E m \in Methods, p \in BindPatterns : register(m, p, "ok", <<>>)
    /\ UNCHANGED <<dispatchVars, exampleVars>>
    /\ UNCHANGED componentVars

BindResolve ==
    /\ lastMatch = NoCall
    /\ \E c \in BindRequests : Resolve(c[1], c[2])
    /\ UNCHANGED <<dispatchVars, exampleVars>>
    /\ UNCHANGED componentVars

BindNext == BindRegister \/ BindResolve \/ RouteDiscard

BindSpec == RouteInit /\ [][BindNext]_vars

----------------------------------------------------------------------------
(* The int constraint against segments with and without a "-". *)

IntPatterns == {PatUsersIdInt, PatUsersId, PatUsersAdmins}

IntPaths == {PathOf(<<users, n42>>), PathOf(<<users, minus42>>),
             PathOf(<<users, n4minus2>>), PathOf(<<users, minus>>),
             PathOf(<<users, abc>>)}

IntRegister ==
    /\ Len(routes) < MaxRoutes
    /\ \E p \in IntPatterns : register("GET", p, "ok", <<>>)
    /\ UNCHANGED <<dispatchVars, exampleVars>>
    /\ UNCHANGED componentVars

IntResolve ==
    /\ lastMatch = NoCall
    /\ \E p \in IntPaths : Resolve("GET", p)
    /\ UNCHANGED <<dispatchVars, exampleVars>>
    /\ UNCHANGED componentVars

IntNext == IntRegister \/ IntResolve \/ RouteDiscard

IntSpec == RouteInit /\ [][IntNext]_vars

----------------------------------------------------------------------------
(* Requests, responses, failures. *)

Requests == {"r1", "r2"}

NoAttributes == [x \in {} |-> ""]

\* segments: the path as the router sees it.  attributes: what the
\* middleware of this dispatch attached to the request.
NoRequest == [method |-> "", path |-> <<>>, segments |-> <<>>,
              authorization |-> "none", attributes |-> NoAttributes]

\* The name of the chain position p as the producer of a response.
At(p) == ToString(p)

\* by: the chain position (or the component) that produced the response.
Response(status, body, by) ==
    [status |-> status, headers |-> {}, body |-> body, by |-> by]

\* What a handler that writes no response leaves behind.
NoResponse == Response(0, "", "nobody")

Failure(kind, statusCode, message) ==
    [kind |-> kind, statusCode |-> statusCode, message |-> message]

NoFailure == Failure("none", 0, "")

\* A call that the Logger receives: the failure, with its detail, and the
\* request in whose dispatch it was raised.
LogCall(r, f) == [request |-> r, kind |-> f.kind, detail |-> f.message]

Event(at, what) == [at |-> at, what |-> what]

----------------------------------------------------------------------------
(* Middleware and handlers. *)

\* SecurityHeaders: invokes next, then adds headers to the response.
\* Auth: 401 without an Authorization header, 403 for an invalid token,
\*   both without invoking next; otherwise returns next(request).
\* ErrorHandling: invokes next inside try; a failure becomes a 500 response.
\* ErrorReporting: invokes next inside try; reports a failure and re-throws.
MiddlewareKinds == {"SecurityHeaders", "Auth", "ErrorHandling", "ErrorReporting"}

\* UserResolver: attaches the user of the request's token to the request,
\* then invokes next.  Logging: logs the request, invokes next, logs the
\* response.
RequestKinds == {"UserResolver", "Logging"}

\* Reentrant: a defective middleware, which invokes next a second time when
\* the first invocation has returned.
DefectiveKinds == {"Reentrant"}

\* ok: returns 200.  throwPlain: throws std::runtime_error.  throwHttp:
\* throws NotFoundException, which carries 404.  empty: writes no response.
HandlerKinds == {"ok", "throwPlain", "throwHttp", "empty"}

Element(kind, scope) == [kind |-> kind, scope |-> scope]

RECURSIVE Elements(_, _)
Elements(kinds, scope) ==
    IF kinds = <<>> THEN <<>>
    ELSE <<Element(Head(kinds), scope)>> \o Elements(Tail(kinds), scope)

\* A chain builder that puts the route's middleware outside the global ones.
EffectiveChainLocalsFirst(globals, table, m) ==
    IF m.matched
    THEN Elements(table[m.route].middleware, "local")
         \o Elements(globals, "global")
         \o <<Element(table[m.route].handler, "handler")>>
    ELSE Elements(globals, "global") \o <<Element("NotFound", "router")>>

\* A chain builder that answers an unmatched request with no middleware.
EffectiveChainBypass(globals, table, m) ==
    IF m.matched
    THEN Elements(globals, "global")
         \o Elements(table[m.route].middleware, "local")
         \o <<Element(table[m.route].handler, "handler")>>
    ELSE <<Element("NotFound", "router")>>

\* The chain of a dispatch: the global middleware in registration order,
\* then the matched route's middleware in registration order, then the
\* handler; for a request no route matches, the global middleware around the
\* not-found response.
EffectiveChain(globals, table, m) ==
    Elements(globals, "global") \o
    IF m.matched
    THEN Elements(table[m.route].middleware, "local")
         \o <<Element(table[m.route].handler, "handler")>>
    ELSE <<Element("NotFound", "router")>>

NoUser == ""

\* userService->findUserByToken(token)
findUserByToken(token) ==
    CASE token = "valid"  -> "alice"
      [] token = "valid2" -> "bob"
      [] OTHER            -> NoUser

\* The attributes with value under key, whatever was under key before.
Attached(attributes, key, value) ==
    [k \in DOMAIN attributes \cup {key} |->
        IF k = key THEN value ELSE attributes[k]]

\* A middleware that keeps one request object for all dispatches.
withAttributeShared(requests, r, key, value) ==
    [q \in DOMAIN requests |->
        [requests[q] EXCEPT !.attributes = Attached(@, key, value)]]

\* The attribute is attached to a request that is not passed on.
withAttributeDropped(requests, r, key, value) == requests

\* request.withAttribute(key, value): the request of dispatch r with the
\* attribute attached; the requests of the other dispatches are other
\* objects.
withAttribute(requests, r, key, value) ==
    [requests EXCEPT ![r].attributes = Attached(@, key, value)]

\* An authentication that lets every request through.
AuthVerdictAccepts(authorization) == 0

\* What Auth answers when it does not invoke next; status 0: it invokes next.
AuthVerdict(authorization) ==
    CASE authorization = "none"    -> 401
      [] authorization = "invalid" -> 403
      [] OTHER                     -> 0

\* An Error Boundary for which every failure is server-class.
ErrorBoundaryServerClass(f) == Response(500, "generic", "ErrorBoundary")

\* An Error Boundary that produces nothing.
ErrorBoundaryEmpty(f) == Response(0, "", "nobody")

\* The Error Boundary: a status code the failure carries is honoured, any
\* other failure is server-class.
ErrorBoundary(f) ==
    IF f.statusCode # 0
    THEN Response(f.statusCode, f.message, "ErrorBoundary")
    ELSE Response(500, "generic", "ErrorBoundary")

InFlight == {"Matching", "Matched", "Unmatched", "ChainExecuting", "Failed",
             "ErrorHandled"}

Terminal == {"Completed", "Cancelled"}

----------------------------------------------------------------------------
(* Registration for dispatch. *)

NoTraffic == \A r \in Requests : state[r] = "Idle"

frame == <<req, state, match, chain, depth, mode, nextCalls, response,
           failure, final, finalized, cancelled, log, logger, seen>>

useMiddleware(kind) ==
    /\ NoTraffic
    /\ globalMiddleware' = Append(globalMiddleware, kind)
    /\ UNCHANGED <<routes, lastMatch>>
    /\ UNCHANGED frame
    /\ UNCHANGED <<componentVars, exampleVars>>

route(method, pattern, middleware, handler) ==
    /\ NoTraffic
    /\ register(method, pattern, handler, middleware)
    /\ UNCHANGED globalMiddleware
    /\ UNCHANGED frame
    /\ UNCHANGED <<componentVars, exampleVars>>

----------------------------------------------------------------------------
(* Dispatch of one request, step by step. *)

Top(r) == chain[r][depth[r]]

Push(r) ==
    /\ depth' = [depth EXCEPT ![r] = @ + 1]
    /\ nextCalls' = [nextCalls EXCEPT ![r] = Append(@, 0)]

Pop(r) ==
    /\ depth' = [depth EXCEPT ![r] = @ - 1]
    /\ nextCalls' = [nextCalls EXCEPT ![r] = SubSeq(@, 1, Len(@) - 1)]

Logged(r, what) == log' = [log EXCEPT ![r] = Append(@, what)]

dispatch(r, method, path, authorization) ==
    /\ state[r] = "Idle"
    /\ req' = [req EXCEPT ![r] = [method |-> method, path |-> path,
                                  segments |-> Segments(path),
                                  authorization |-> authorization,
                                  attributes |-> NoAttributes]]
    /\ state' = [state EXCEPT ![r] = "Matching"]
    /\ UNCHANGED <<componentVars, exampleVars, seen, routes, lastMatch, globalMiddleware, match, chain, depth,
                   mode, nextCalls, response, failure, final, finalized,
                   cancelled, log, logger>>

ResolveRoute(r) ==
    /\ state[r] = "Matching"
    /\ LET m == resolveSegments(routes, req[r].method, req[r].segments)
       IN  /\ match' = [match EXCEPT ![r] = m]
           /\ state' = [state EXCEPT ![r] =
                            IF m.matched THEN "Matched" ELSE "Unmatched"]
    /\ UNCHANGED <<componentVars, exampleVars, seen, routes, lastMatch, globalMiddleware, req, chain, depth,
                   mode, nextCalls, response, failure, final, finalized,
                   cancelled, log, logger>>

BuildChain(r) ==
    /\ state[r] \in {"Matched", "Unmatched"}
    /\ chain' = [chain EXCEPT ![r] =
                     EffectiveChain(globalMiddleware, routes, match[r])]
    /\ state' = [state EXCEPT ![r] = "ChainExecuting"]
    /\ mode' = [mode EXCEPT ![r] = "call"]
    /\ UNCHANGED <<componentVars, exampleVars, seen, routes, lastMatch, globalMiddleware, req, match, depth,
                   nextCalls, response, failure, final, finalized, cancelled,
                   log, logger>>

\* What a handler of the kind throws.  HttpException and the exceptions
\* derived from it carry a status code; the others carry none.
Thrown(kind) ==
    CASE kind = "throwHttp"      -> Failure("NotFoundException", 404, "User not found")
      [] kind = "throwPayment"   -> Failure("PaymentFailedException", 402, "Payment failed")
      [] kind = "throwForbidden" -> Failure("ForbiddenException", 403, "No permission")
      [] kind = "throwDatabase"  -> Failure("DatabaseException", 0, "Database error")
      [] OTHER                   -> Failure("runtime_error", 0, "Email already in use")

\* The next element of the chain starts: its pre-processing, or the handler.
Enter(r) ==
    /\ state[r] = "ChainExecuting"
    /\ mode[r] = "call"
    /\ LET p == depth[r] + 1
           e == chain[r][p]
           answer(resp) ==
               /\ response' = [response EXCEPT ![r] = resp]
               /\ mode' = [mode EXCEPT ![r] = "return"]
               /\ UNCHANGED <<depth, nextCalls, failure>>
           throw(f) ==
               /\ failure' = [failure EXCEPT ![r] = f]
               /\ mode' = [mode EXCEPT ![r] = "throw"]
               /\ UNCHANGED <<depth, nextCalls, response>>
           wantNext ==
               /\ Push(r)
               /\ mode' = [mode EXCEPT ![r] = "next"]
               /\ UNCHANGED <<response, failure>>
       IN  /\ seen' = [seen EXCEPT ![r] = Append(@, req[r].attributes)]
           /\ req' = IF /\ e.kind = "UserResolver"
                        /\ findUserByToken(req[r].authorization) # NoUser
                     THEN withAttribute(req, r, "user",
                                        findUserByToken(req[r].authorization))
                     ELSE req
           /\ CASE e.scope = "router" ->
                    /\ Logged(r, Event(p, "notfound"))
                    /\ answer(Response(404, "Not Found", At(p)))
             [] e.scope = "handler" ->
                    /\ Logged(r, Event(p, "handler"))
                    /\ CASE e.kind = "ok" -> answer(Response(200, "ok", At(p)))
                         [] e.kind = "empty" -> answer(NoResponse)
                         [] OTHER -> throw(Thrown(e.kind))
             [] OTHER ->
                    /\ Logged(r, Event(p, "pre"))
                    /\ IF e.kind = "Auth" /\ AuthVerdict(req[r].authorization) # 0
                       THEN answer(Response(AuthVerdict(req[r].authorization),
                                            "Authentication", At(p)))
                       ELSE wantNext
    /\ UNCHANGED <<componentVars, exampleVars, routes, lastMatch, globalMiddleware, state, match,
                   chain, final, finalized, cancelled, logger>>

\* An invocation of next that does not see that next was invoked before.
InvokeNextUnguarded(r) ==
    /\ state[r] = "ChainExecuting"
    /\ mode[r] = "next"
    /\ IF cancelled[r]
       THEN /\ failure' = [failure EXCEPT ![r] =
                               Failure("RequestCancelledError", 0, "cancelled")]
            /\ state' = [state EXCEPT ![r] = "Cancelled"]
            /\ mode' = [mode EXCEPT ![r] = "none"]
            /\ depth' = [depth EXCEPT ![r] = 0]
            /\ nextCalls' = [nextCalls EXCEPT ![r] = <<>>]
            /\ UNCHANGED log
       ELSE /\ nextCalls' = [nextCalls EXCEPT ![r][depth[r]] = @ + 1]
            /\ mode' = [mode EXCEPT ![r] = "call"]
            /\ Logged(r, Event(depth[r], "next"))
            /\ UNCHANGED <<state, depth, failure>>
    /\ UNCHANGED <<componentVars, exampleVars, seen, routes, lastMatch, globalMiddleware, req, match, chain,
                   response, final, finalized, cancelled, logger>>

\* An invocation of next that does not look at the cancellation flag.
InvokeNextIgnoresCancel(r) ==
    /\ state[r] = "ChainExecuting"
    /\ mode[r] = "next"
    /\ IF nextCalls[r][depth[r]] >= 1
       THEN /\ failure' = [failure EXCEPT ![r] =
                               Failure("ChainReentryError", 0, "next invoked twice")]
            /\ mode' = [mode EXCEPT ![r] = "throw"]
            /\ Logged(r, Event(depth[r], "reentry"))
            /\ UNCHANGED <<state, depth, nextCalls>>
       ELSE /\ nextCalls' = [nextCalls EXCEPT ![r][depth[r]] = @ + 1]
            /\ mode' = [mode EXCEPT ![r] = "call"]
            /\ Logged(r, Event(depth[r], "next"))
            /\ UNCHANGED <<state, depth, failure>>
    /\ UNCHANGED <<componentVars, exampleVars, seen, routes, lastMatch, globalMiddleware, req, match, chain,
                   response, final, finalized, cancelled, logger>>

\* The waiting element on top invokes next.  The cancellation flag is looked
\* at first; next is single-use.
InvokeNext(r) ==
    /\ state[r] = "ChainExecuting"
    /\ mode[r] = "next"
    /\ IF cancelled[r]
       THEN /\ failure' = [failure EXCEPT ![r] =
                               Failure("RequestCancelledError", 0, "cancelled")]
            /\ state' = [state EXCEPT ![r] = "Cancelled"]
            /\ mode' = [mode EXCEPT ![r] = "none"]
            /\ depth' = [depth EXCEPT ![r] = 0]
            /\ nextCalls' = [nextCalls EXCEPT ![r] = <<>>]
            /\ UNCHANGED log
       ELSE IF nextCalls[r][depth[r]] >= 1
       THEN /\ failure' = [failure EXCEPT ![r] =
                               Failure("ChainReentryError", 0, "next invoked twice")]
            /\ mode' = [mode EXCEPT ![r] = "throw"]
            /\ Logged(r, Event(depth[r], "reentry"))
            /\ UNCHANGED <<state, depth, nextCalls>>
       ELSE /\ nextCalls' = [nextCalls EXCEPT ![r][depth[r]] = @ + 1]
            /\ mode' = [mode EXCEPT ![r] = "call"]
            /\ Logged(r, Event(depth[r], "next"))
            /\ UNCHANGED <<state, depth, failure>>
    /\ UNCHANGED <<componentVars, exampleVars, seen, routes, lastMatch, globalMiddleware, req, match, chain,
                   response, final, finalized, cancelled, logger>>

\* A post-processing that returns no response to the element outside.
ReturnLosesResponse(r) ==
    /\ state[r] = "ChainExecuting"
    /\ mode[r] = "return"
    /\ depth[r] >= 1
    /\ Logged(r, Event(depth[r], "post"))
    /\ Pop(r)
    /\ response' = [response EXCEPT ![r] = NoResponse]
    /\ UNCHANGED <<componentVars, exampleVars, seen, routes, lastMatch, globalMiddleware, req, state, match,
                   chain, mode, failure, final, finalized, cancelled, logger>>

\* next returned a response to the waiting element on top: its
\* post-processing.
Return(r) ==
    /\ state[r] = "ChainExecuting"
    /\ mode[r] = "return"
    /\ depth[r] >= 1
    /\ Logged(r, Event(depth[r], "post"))
    /\ IF Top(r).kind = "Reentrant"
       THEN /\ mode' = [mode EXCEPT ![r] = "next"]
            /\ UNCHANGED <<depth, nextCalls, response>>
       ELSE /\ Pop(r)
            /\ response' = [response EXCEPT ![r] =
                   IF Top(r).kind = "SecurityHeaders" /\ @ # NoResponse
                   THEN [@ EXCEPT !.headers = @ \cup {"X-Frame-Options"}]
                   ELSE @]
            /\ UNCHANGED mode
    /\ UNCHANGED <<componentVars, exampleVars, seen, routes, lastMatch, globalMiddleware, req, state, match,
                   chain, failure, final, finalized, cancelled, logger>>

\* A failure that no catch block of a middleware stops.
UnwindPastCatchers(r) ==
    /\ state[r] = "ChainExecuting"
    /\ mode[r] = "throw"
    /\ depth[r] >= 1
    /\ Pop(r)
    /\ UNCHANGED <<log, logger, response, failure, mode>>
    /\ UNCHANGED <<componentVars, exampleVars, seen, routes, lastMatch, globalMiddleware, req, state, match,
                   chain, final, finalized, cancelled>>

\* A failure reaches the waiting element on top: its catch block, if any.
Unwind(r) ==
    /\ state[r] = "ChainExecuting"
    /\ mode[r] = "throw"
    /\ depth[r] >= 1
    /\ Pop(r)
    /\ CASE Top(r).kind = "ErrorHandling" ->
                /\ Logged(r, Event(depth[r], "catch"))
                /\ logger' = Append(logger, LogCall(r, failure[r]))
                /\ response' = [response EXCEPT ![r] =
                       Response(500,
                                IF failure[r].kind = "DatabaseException"
                                THEN "A database error occurred"
                                ELSE "An unexpected error occurred",
                                At(depth[r]))]
                /\ failure' = [failure EXCEPT ![r] = NoFailure]
                /\ mode' = [mode EXCEPT ![r] = "return"]
         [] Top(r).kind = "ErrorReporting" ->
                /\ Logged(r, Event(depth[r], "report"))
                /\ UNCHANGED <<logger, response, failure, mode>>
         [] OTHER ->
                /\ UNCHANGED <<log, logger, response, failure, mode>>
    /\ UNCHANGED <<componentVars, exampleVars, seen, routes, lastMatch, globalMiddleware, req, state, match,
                   chain, final, finalized, cancelled>>

\* A Dispatcher that finalizes whatever the chain returned.
FinishFinalizesAnything(r) ==
    /\ state[r] = "ChainExecuting"
    /\ mode[r] = "return"
    /\ depth[r] = 0
    /\ mode' = [mode EXCEPT ![r] = "none"]
    /\ final' = [final EXCEPT ![r] = response[r]]
    /\ finalized' = [finalized EXCEPT ![r] = @ + 1]
    /\ state' = [state EXCEPT ![r] = "Completed"]
    /\ UNCHANGED <<componentVars, exampleVars, seen, routes, lastMatch, globalMiddleware, req, match, chain,
                   depth, nextCalls, response, failure, cancelled, log, logger>>

\* The chain returned to the Dispatcher.
Finish(r) ==
    /\ state[r] = "ChainExecuting"
    /\ mode[r] = "return"
    /\ depth[r] = 0
    /\ mode' = [mode EXCEPT ![r] = "none"]
    /\ IF response[r] = NoResponse
       THEN /\ failure' = [failure EXCEPT ![r] =
                               Failure("EmptyResponseError", 0, "no response")]
            /\ state' = [state EXCEPT ![r] = "Failed"]
            /\ UNCHANGED <<final, finalized>>
       ELSE /\ final' = [final EXCEPT ![r] = response[r]]
            /\ finalized' = [finalized EXCEPT ![r] = @ + 1]
            /\ state' = [state EXCEPT ![r] = "Completed"]
            /\ UNCHANGED failure
    /\ UNCHANGED <<componentVars, exampleVars, seen, routes, lastMatch, globalMiddleware, req, match, chain,
                   depth, nextCalls, response, cancelled, log, logger>>

\* A Dispatcher that drops a failure that left the chain.
FailStalls(r) ==
    /\ state[r] = "ChainExecuting"
    /\ mode[r] = "throw"
    /\ depth[r] = 0
    /\ mode' = [mode EXCEPT ![r] = "none"]
    /\ UNCHANGED <<componentVars, exampleVars, seen, routes, lastMatch, globalMiddleware, req, state, match,
                   chain, depth, nextCalls, response, failure, final,
                   finalized, cancelled, log, logger>>

\* A failure left the chain.
Fail(r) ==
    /\ state[r] = "ChainExecuting"
    /\ mode[r] = "throw"
    /\ depth[r] = 0
    /\ mode' = [mode EXCEPT ![r] = "none"]
    /\ state' = [state EXCEPT ![r] = "Failed"]
    /\ UNCHANGED <<componentVars, exampleVars, seen, routes, lastMatch, globalMiddleware, req, match, chain,
                   depth, nextCalls, response, failure, final, finalized,
                   cancelled, log, logger>>

\* A Dispatcher that finalizes the response of the Error Boundary at once.
HandleErrorCompletes(r) ==
    /\ state[r] = "Failed"
    /\ response' = [response EXCEPT ![r] = ErrorBoundary(failure[r])]
    /\ logger' = Append(logger, LogCall(r, failure[r]))
    /\ final' = [final EXCEPT ![r] = ErrorBoundary(failure[r])]
    /\ finalized' = [finalized EXCEPT ![r] = @ + 1]
    /\ state' = [state EXCEPT ![r] = "Completed"]
    /\ UNCHANGED <<componentVars, exampleVars, seen, routes, lastMatch, globalMiddleware, req, match, chain,
                   depth, mode, nextCalls, failure, cancelled, log>>

\* An Error Boundary that tells the Logger nothing.
HandleErrorSilent(r) ==
    /\ state[r] = "Failed"
    /\ response' = [response EXCEPT ![r] = ErrorBoundary(failure[r])]
    /\ state' = [state EXCEPT ![r] = "ErrorHandled"]
    /\ UNCHANGED <<componentVars, exampleVars, seen, routes, lastMatch, globalMiddleware, req, match, chain,
                   depth, mode, nextCalls, failure, final, finalized,
                   cancelled, log, logger>>

\* The Dispatcher hands the failure to the Error Boundary.
HandleError(r) ==
    /\ state[r] = "Failed"
    /\ response' = [response EXCEPT ![r] = ErrorBoundary(failure[r])]
    /\ logger' = Append(logger, LogCall(r, failure[r]))
    /\ state' = [state EXCEPT ![r] = "ErrorHandled"]
    /\ UNCHANGED <<componentVars, exampleVars, seen, routes, lastMatch, globalMiddleware, req, match, chain,
                   depth, mode, nextCalls, failure, final, finalized,
                   cancelled, log>>

Complete(r) ==
    /\ state[r] = "ErrorHandled"
    /\ final' = [final EXCEPT ![r] = response[r]]
    /\ finalized' = [finalized EXCEPT ![r] = @ + 1]
    /\ state' = [state EXCEPT ![r] = "Completed"]
    /\ UNCHANGED <<componentVars, exampleVars, seen, routes, lastMatch, globalMiddleware, req, match, chain,
                   depth, mode, nextCalls, response, failure, cancelled, log,
                   logger>>

\* The caller sets the cancellation flag of a request in flight.
Cancel(r) ==
    /\ state[r] \in InFlight
    /\ ~cancelled[r]
    /\ cancelled' = [cancelled EXCEPT ![r] = TRUE]
    /\ UNCHANGED <<componentVars, exampleVars, seen, routes, lastMatch, globalMiddleware, req, state, match,
                   chain, depth, mode, nextCalls, response, failure, final,
                   finalized, log, logger>>

----------------------------------------------------------------------------
(* The dispatcher: registration, then requests. *)

Init ==
    /\ routes = <<>>
    /\ lastMatch = NoCall
    /\ globalMiddleware = <<>>
    /\ req = [r \in Requests |-> NoRequest]
    /\ state = [r \in Requests |-> "Idle"]
    /\ match = [r \in Requests |-> Unresolved]
    /\ chain = [r \in Requests |-> <<>>]
    /\ depth = [r \in Requests |-> 0]
    /\ mode = [r \in Requests |-> "none"]
    /\ nextCalls = [r \in Requests |-> <<>>]
    /\ response = [r \in Requests |-> NoResponse]
    /\ failure = [r \in Requests |-> NoFailure]
    /\ final = [r \in Requests |-> NoResponse]
    /\ finalized = [r \in Requests |-> 0]
    /\ cancelled = [r \in Requests |-> FALSE]
    /\ log = [r \in Requests |-> <<>>]
    /\ logger = <<>>
    /\ raised = NoError
    /\ rwlock = Unlocked
    /\ builder = NoBuilder
    /\ seen = [r \in Requests |-> <<>>]
    /\ room = NewRoom
    /\ api = NewApi

Registered == Len(globalMiddleware) +
              (IF routes = <<>> THEN 0 ELSE Len(routes[1].middleware))

UseMiddlewareOf(kinds) ==
    /\ Registered < MaxMiddleware
    /\ \E k \in kinds : useMiddleware(k)

\* The sequences over kinds of the lengths the bound allows.
LocalChoices(kinds) ==
    UNION {[1..n -> kinds] : n \in 0..MaxMiddleware}

\* One route, GET /users/{id:int}, with any local middleware and handler.
RegisterRouteOf(kinds) ==
    /\ routes = <<>>
    /\ \E mw \in LocalChoices(kinds), h \in HandlerKinds :
           /\ Len(globalMiddleware) + Len(mw) <= MaxMiddleware
           /\ route("GET", PatUsersIdInt, mw, h)

UseMiddleware == UseMiddlewareOf(MiddlewareKinds)

RegisterRoute == RegisterRouteOf(MiddlewareKinds)

Authorizations == {"none", "invalid", "valid"}

DispatchPaths == {PathOf(<<users, n42>>), PathOf(<<users, abc>>)}

DispatchOf(callers, paths, authorizations) ==
    \E r \in callers, p \in paths, a \in authorizations :
        dispatch(r, "GET", p, a)

\* One request at a time.
Dispatch == DispatchOf({"r1"}, DispatchPaths, Authorizations)

Step ==
    \E r \in Requests :
        \/ ResolveRoute(r)
        \/ BuildChain(r)
        \/ Enter(r)
        \/ InvokeNext(r)
        \/ Return(r)
        \/ Unwind(r)
        \/ Finish(r)
        \/ Fail(r)
        \/ HandleError(r)
        \/ Complete(r)

CancelRequest == \E r \in Requests : Cancel(r)

Next == UseMiddleware \/ RegisterRoute \/ Dispatch \/ Step \/ CancelRequest

Spec == Init /\ [][Next]_vars

\* A dispatch runs to its end: nothing suspends it.
FairSpec == Spec /\ WF_vars(Step)

\* The dispatcher with defective middleware among the registered ones.
UseAnyMiddleware == UseMiddlewareOf(MiddlewareKinds \cup DefectiveKinds)

RegisterAnyRoute == RegisterRouteOf(MiddlewareKinds \cup DefectiveKinds)

ReentryNext ==
    UseAnyMiddleware \/ RegisterAnyRoute \/ Dispatch \/ Step \/ CancelRequest

ReentrySpec == Init /\ [][ReentryNext]_vars

\* Concurrent requests against one route, by callers with different tokens;
\* their steps interleave in every order.
\* The middleware of the concurrent dispatches.
ConcurrentKinds == {"Auth", "UserResolver"}

UseSomeMiddleware == UseMiddlewareOf(ConcurrentKinds)

RegisterSomeRoute == RegisterRouteOf(ConcurrentKinds)

Tokens == {"none", "valid", "valid2"}

DispatchConcurrently ==
    DispatchOf(Requests, {PathOf(<<users, n42>>)}, Tokens)

ConcurrentNext ==
    UseSomeMiddleware \/ RegisterSomeRoute \/ DispatchConcurrently \/ Step

ConcurrentSpec == Init /\ [][ConcurrentNext]_vars

----------------------------------------------------------------------------
(* The scenario: global A, global B, route-local C, handler H. *)

\* A: adds a header to the response.  B: logs.  C: authenticates.
ScenarioA == "SecurityHeaders"

ScenarioB == "Logging"

ScenarioC == "Auth"

ScenarioUse ==
    \/ globalMiddleware = <<>> /\ useMiddleware(ScenarioA)
    \/ globalMiddleware = <<ScenarioA>> /\ useMiddleware(ScenarioB)

ScenarioRoute ==
    /\ routes = <<>>
    /\ \E h \in HandlerKinds : route("GET", PatUsersIdInt, <<ScenarioC>>, h)

ScenarioDispatch == DispatchOf({"r1"}, DispatchPaths, Authorizations)

ScenarioNext == ScenarioUse \/ ScenarioRoute \/ ScenarioDispatch \/ Step

\* The caller does not cancel, and nothing suspends a dispatch.
ScenarioSpec == Init /\ [][ScenarioNext]_vars /\ WF_vars(Step)

----------------------------------------------------------------------------
(* The ResponseBuilder. *)

\* The call on a finalized builder fails and changes nothing.
Refused == builder' = [builder EXCEPT !.error = "FinalizedError"]

\* A status code that is written whether or not the builder was sent.
setStatusUnguarded(code) ==
    builder' = [builder EXCEPT !.status = code, !.error = NoError]

setStatus(code) ==
    IF builder.sent THEN Refused
    ELSE builder' = [builder EXCEPT !.status = code, !.error = NoError]

setHeader(name) ==
    IF builder.sent THEN Refused
    ELSE builder' = [builder EXCEPT !.headers = @ \cup {name}, !.error = NoError]

setBody(text) ==
    IF builder.sent THEN Refused
    ELSE builder' = [builder EXCEPT !.body = text, !.error = NoError]

\* Finalizes the builder: what it holds is sent.
send ==
    IF builder.sent THEN Refused
    ELSE builder' = [builder EXCEPT !.sent = TRUE, !.sends = @ + 1,
                                    !.error = NoError]

BuilderStatuses == {200, 404, 500}

BuilderHeaders == {"Content-Type", "X-Frame-Options"}

BuilderBodies == {"ok", "Not Found"}

BuilderMutate ==
    /\ \/ \E c \in BuilderStatuses : setStatus(c)
       \/ \E h \in BuilderHeaders : setHeader(h)
       \/ \E t \in BuilderBodies : setBody(t)
    /\ UNCHANGED <<routeVars, dispatchVars, exampleVars, raised, rwlock>>

BuilderSend ==
    /\ send
    /\ UNCHANGED <<routeVars, dispatchVars, exampleVars, raised, rwlock>>

BuilderNext == BuilderMutate \/ BuilderSend

BuilderSpec == RouteInit /\ [][BuilderNext]_vars

----------------------------------------------------------------------------
(* Failures of every kind at the Error Boundary. *)

BoundaryHandlers == {"ok", "empty", "throwPlain", "throwHttp", "throwPayment",
                     "throwForbidden", "throwDatabase"}

BoundaryKinds == {"ErrorReporting", "SecurityHeaders"}

BoundaryUse == UseMiddlewareOf(BoundaryKinds)

BoundaryRoute ==
    /\ routes = <<>>
    /\ \E h \in BoundaryHandlers : route("GET", PatUsersIdInt, <<>>, h)

BoundaryDispatch == DispatchOf({"r1"}, DispatchPaths, {"valid"})

BoundaryNext == BoundaryUse \/ BoundaryRoute \/ BoundaryDispatch \/ Step

BoundarySpec == Init /\ [][BoundaryNext]_vars

----------------------------------------------------------------------------
(* Middleware that invokes next inside try and catch. *)

CatchKinds == {"SecurityHeaders", "ErrorHandling", "ErrorReporting"}

CatchHandlers == {"ok", "throwPlain", "throwHttp", "throwDatabase"}

CatchUse == UseMiddlewareOf(CatchKinds)

CatchRoute ==
    /\ routes = <<>>
    /\ \E mw \in LocalChoices(CatchKinds), h \in CatchHandlers :
           /\ Len(globalMiddleware) + Len(mw) <= MaxMiddleware
           /\ route("GET", PatUsersIdInt, mw, h)

CatchDispatch == DispatchOf({"r1"}, DispatchPaths, {"valid"})

CatchNext == CatchUse \/ CatchRoute \/ CatchDispatch \/ Step

CatchSpec == Init /\ [][CatchNext]_vars

----------------------------------------------------------------------------
(* Claims about the route table. *)

\* The routes of the current table that are candidates for the last call.
Candidates ==
    LET segs == Segments(lastMatch.path)
    IN  {i \in 1..Len(routes) :
            /\ routes[i].method = lastMatch.method
            /\ Bind(routes[i].pattern, segs).matched}

Called == lastMatch # NoCall

Lowest(S) == CHOOSE i \in S : \A j \in S : i <= j

ViolatesInt(i) ==
    LET segs == Segments(lastMatch.path)
    IN  /\ routes[i].method = lastMatch.method
        /\ routes[i].pattern = PatUsersIdInt
        /\ Len(segs) = 2
        /\ segs[1] = users
        /\ \E k \in 1..Len(segs[2]) : segs[2][k] \notin Digits

SomeViolation == Called /\ \E i \in 1..Len(routes) : ViolatesInt(i)

Without(table, i) == SubSeq(table, 1, i - 1) \o SubSeq(table, i + 1, Len(table))

\* The index in Without(table, i) of route k of the table, k # i.
Shifted(k, i) == IF k > i THEN k - 1 ELSE k

----------------------------------------------------------------------------
(* Claims about a dispatch. *)

HasEvent(r, at, what) == \E k \in DOMAIN log[r] : log[r][k] = Event(at, what)

Count(r, at, what) ==
    Cardinality({k \in DOMAIN log[r] : log[r][k] = Event(at, what)})

\* The position of the handler, or of the not-found response, in the chain.
Last(r) == Len(chain[r])

\* The middleware at position i has run and has returned without invoking
\* next.
ShortCircuited(r, i) ==
    /\ state[r] \notin {"Idle", "Matching", "Matched", "Unmatched", "Cancelled"}
    /\ i \in 1..(Last(r) - 1)
    /\ HasEvent(r, i, "pre")
    /\ ~HasEvent(r, i, "next")
    /\ depth[r] < i

\* C2: when the middleware at position i returns without invoking next, no
\* element at a position greater than i executes in that dispatch, the
\* response that travels outward is the one middleware i produced, and that
\* response is the final response of the dispatch.
C2_ShortCircuit ==
    \A r \in Requests : \A i \in 1..Len(chain[r]) :
        ShortCircuited(r, i) =>
            /\ \A k \in DOMAIN log[r] : log[r][k].at <= i
            /\ state[r] \in {"ChainExecuting", "Completed"}
            /\ state[r] = "ChainExecuting" =>
                   /\ mode[r] = "return"
                   /\ response[r].by = At(i)
                   /\ response[r].status \in {401, 403}
            /\ state[r] = "Completed" =>
                   /\ final[r].by = At(i)
                   /\ final[r].status \in {401, 403}
                   /\ final[r].status = (IF req[r].authorization = "none"
                                         THEN 401 ELSE 403)
                   /\ finalized[r] = 1

\* The second of two middleware, inside SecurityHeaders, answered 401.
C2_Witness ==
    \E r \in Requests :
        /\ state[r] = "Completed"
        /\ ShortCircuited(r, 2)
        /\ Last(r) = 3
        /\ chain[r][1].kind = "SecurityHeaders"
        /\ final[r].by = At(2)
        /\ final[r].status = 401
        /\ final[r].headers = {"X-Frame-Options"}
        /\ ~HasEvent(r, 3, "handler")

\* The pre-processing, handler and post-processing events of a request.
Trace(r) == SelectSeq(log[r], LAMBDA e : e.what \in {"pre", "handler", "post"})

\* The onion over a chain of n elements, the last one the handler.
Onion(n) ==
    [k \in 1..(2 * n - 1) |->
        IF k < n THEN Event(k, "pre")
        ELSE IF k = n THEN Event(n, "handler")
        ELSE Event(2 * n - k, "post")]

AllInvokeNext(r) == \A i \in 1..(Last(r) - 1) : HasEvent(r, i, "next")

\* G1..Gm, L1..Ln, handler.
ChainInOrder(r) ==
    chain[r] = Elements(globalMiddleware, "global")
               \o Elements(routes[match[r].route].middleware, "local")
               \o <<Element(routes[match[r].route].handler, "handler")>>

Ended(r) == state[r] = "Completed"

HandlerReturns(r) == chain[r][Last(r)].kind \in {"ok", "empty"}

NoneInvokesNextAgain(r) ==
    \A i \in 1..(Last(r) - 1) : ~HasEvent(r, i, "reentry")

ChainLeftNoResponse(r) ==
    /\ match[r].matched
    /\ HasEvent(r, Last(r), "handler")
    /\ chain[r][Last(r)].kind = "empty"

\* The Dispatcher's substitute for the response the chain did not write.
EmptyResponseSubstituted(r) ==
    (Ended(r) /\ ChainLeftNoResponse(r)) =>
        /\ failure[r].kind = "EmptyResponseError"
        /\ final[r].status = 500
        /\ final[r].by = "ErrorBoundary"

Unmatched(r) ==
    /\ state[r] \notin {"Idle", "Matching"}
    /\ ~match[r].matched

WellFormed(resp, f) ==
    /\ resp.by = "ErrorBoundary"
    /\ resp.status = (IF f.statusCode # 0 THEN f.statusCode ELSE 500)
    /\ resp.status \in 400..599
    /\ resp.body # ""

\* C8: a failure that nothing in the chain catches stays inside the
\* dispatch: it travels outward while the chain executes, the request is
\* Failed when it has left the chain, the Error Boundary answers it with a
\* well-formed response, and that response is the final response.
C8_FailureBecomesResponse ==
    \A r \in Requests :
        /\ mode[r] = "throw" =>
               (state[r] = "ChainExecuting" /\ failure[r] # NoFailure)
        /\ state[r] = "Failed" => (failure[r] # NoFailure /\ finalized[r] = 0)
        /\ state[r] = "ErrorHandled" =>
               (WellFormed(response[r], failure[r]) /\ finalized[r] = 0)
        /\ (state[r] = "Completed" /\ failure[r] # NoFailure) =>
               (WellFormed(final[r], failure[r]) /\ finalized[r] = 1)
        /\ failure[r].kind \in {"runtime_error", "NotFoundException"} =>
               state[r] \in {"ChainExecuting", "Failed", "ErrorHandled",
                             "Completed"}

\* A NotFoundException passed a reporting middleware and became the 404.
C8_Witness ==
    \E r \in Requests :
        /\ state[r] = "Completed"
        /\ failure[r].kind = "NotFoundException"
        /\ HasEvent(r, 1, "report")
        /\ final[r].status = 404
        /\ final[r].by = "ErrorBoundary"

InLogger(kind) == \E k \in DOMAIN logger : logger[k].kind = kind

\* C9: no element of the chain starts twice in one dispatch and no
\* middleware gets through next twice; a second invocation of next is the
\* failure ChainReentryError, which is logged, and a dispatch in which it
\* happened ends with status 500.
C9_NextIsSingleUse ==
    \A r \in Requests :
        /\ \A i \in 1..Len(chain[r]) :
               /\ Count(r, i, "pre") <= 1
               /\ Count(r, i, "handler") <= 1
               /\ Count(r, i, "notfound") <= 1
               /\ Count(r, i, "next") <= 1
               /\ HasEvent(r, i, "reentry") =>
                      /\ HasEvent(r, i, "next")
                      /\ state[r] = "ChainExecuting" =>
                             \/ failure[r].kind = "ChainReentryError"
                             \/ InLogger("ChainReentryError")
                      /\ Ended(r) =>
                             /\ InLogger("ChainReentryError")
                             /\ final[r].status = 500

\* The outer of two middleware invoked next again after the handler
\* answered; the handler ran once and the dispatch ended 500.
C9_Witness ==
    \E r \in Requests :
        /\ Ended(r)
        /\ Last(r) = 3
        /\ HasEvent(r, 1, "reentry")
        /\ Count(r, 3, "handler") = 1
        /\ Count(r, 2, "pre") = 1
        /\ final[r].status = 500

\* The step of r that a middleware about to invoke next takes.
AboutToInvokeNext(r) ==
    /\ state[r] = "ChainExecuting"
    /\ mode[r] = "next"
    /\ mode'[r] # mode[r]

\* C10: when the cancellation flag is set as a middleware is about to
\* invoke next, that step ends the dispatch as Cancelled with
\* RequestCancelledError and starts no further element; a cancelled dispatch
\* executes nothing more, keeps no response and has none finalized.
C10_CancellationUnwinds ==
    [][\A r \in Requests :
          /\ (AboutToInvokeNext(r) /\ cancelled[r]) =>
                 /\ state'[r] = "Cancelled"
                 /\ failure'[r].kind = "RequestCancelledError"
                 /\ log'[r] = log[r]
                 /\ final'[r] = NoResponse
                 /\ finalized'[r] = 0
          /\ (AboutToInvokeNext(r) /\ ~cancelled[r]) => state'[r] # "Cancelled"
          /\ state[r] = "Cancelled" =>
                 /\ state'[r] = "Cancelled"
                 /\ log'[r] = log[r]
                 /\ final'[r] = NoResponse
                 /\ finalized'[r] = 0
                 /\ response'[r].status \notin 500..599]_vars

\* The second of two middleware was about to invoke next when the flag was
\* set: the handler never ran.
C10_Witness ==
    \E r \in Requests :
        /\ state[r] = "Cancelled"
        /\ Last(r) = 3
        /\ HasEvent(r, 1, "next")
        /\ HasEvent(r, 2, "pre")
        /\ ~HasEvent(r, 2, "next")
        /\ ~HasEvent(r, 3, "handler")
        /\ finalized[r] = 0

\* The attributes dispatch r has when it runs alone: the user of its own
\* token, once a UserResolver of its own chain has started.
AttributesAlone(r) ==
    IF /\ \E i \in 1..Len(chain[r]) :
              HasEvent(r, i, "pre") /\ chain[r][i].kind = "UserResolver"
       /\ findUserByToken(req[r].authorization) # NoUser
    THEN "user" :> findUserByToken(req[r].authorization)
    ELSE NoAttributes

\* C11: however the steps of concurrent dispatches interleave, the
\* attributes of each dispatch are at every moment, and so at its end, the
\* ones it has when it runs alone; no dispatch reads an attribute that
\* another dispatch wrote.
C11_AttributesAreIsolated ==
    \A r \in Requests :
        /\ req[r].attributes = AttributesAlone(r)
        /\ \A q \in Requests \ {r} :
               ("user" \in DOMAIN req[q].attributes) =>
                   req[q].attributes["user"] = findUserByToken(req[q].authorization)

\* Two dispatches are inside their chains at the same time, and each
\* carries the user of its own token.
C11_Witness ==
    /\ state["r1"] = "ChainExecuting"
    /\ state["r2"] = "ChainExecuting"
    /\ req["r1"].attributes = ("user" :> "alice")
    /\ req["r2"].attributes = ("user" :> "bob")
    /\ depth["r1"] >= 1
    /\ depth["r2"] >= 1

----------------------------------------------------------------------------
(* Claims about the components around the dispatcher. *)

\* The routes that a resolve call saw when the first n routes of the table
\* were registered and no other route was in the table.
SeenWith(n) == SubSeq(routes, 1, n)

\* C12: whatever a resolve call returned while routes are being registered,
\* it is what resolve returns on a table in which every route is either
\* entirely registered or entirely absent, and a MatchResult never refers to
\* a route whose handler, middleware or name is not in place yet.
C12_ResolveSeesWholeRoutes ==
    lastMatch # NoCall =>
        /\ \E n \in 0..Len(routes) :
               /\ \A i \in 1..n : ~PartiallyRegistered(routes[i])
               /\ lastMatch.result = resolve(SeenWith(n), lastMatch.method,
                                             lastMatch.path)
        /\ lastMatch.result.matched =>
               ~PartiallyRegistered(routes[lastMatch.result.route])

\* A registration is under way, its route is partly in the table and would
\* match the path of a resolve call that returned before it began; a worker
\* waits for the lock.
C12_Witness ==
    /\ rwlock.writer
    /\ PartiallyRegistered(routes[Len(routes)])
    /\ lastMatch # NoCall
    /\ ~lastMatch.result.matched
    /\ Matches(routes, Len(routes), lastMatch.method, Segments(lastMatch.path))

\* C13: in every state the names of the named routes are pairwise distinct;
\* a registration under a name that a route of the table bears raises
\* DuplicateNameError and leaves the table as it was, and no other
\* registration raises it.
C13_NamesAreUnique ==
    /\ [](\A i, j \in 1..Len(routes) :
              (routes[i].name # "" /\ routes[i].name = routes[j].name) => i = j)
    /\ [][\A h \in NamedHandlers, n \in NamedRouteNames :
              registerNamed("GET", PatUsersId, h, <<>>, n) =>
                  IF n \in Names(routes)
                  THEN raised' = "DuplicateNameError" /\ routes' = routes
                  ELSE raised' = NoError /\ Len(routes') = Len(routes) + 1]_vars

\* A registration under the name of a registered route has just failed, in
\* a table that holds a second named route.
C13_Witness ==
    /\ raised = "DuplicateNameError"
    /\ Names(routes) = {"user.profile", "user.list"}

\* Routes i and j of the table were registered for the same method and the
\* same pattern.
SamePair(i, j) ==
    /\ routes[i].method = routes[j].method
    /\ routes[i].pattern = routes[j].pattern

ResolvedAgainstInt(r) ==
    /\ state[r] \notin {"Idle", "Matching"}
    /\ routes # <<>>
    /\ routes[1].method = "GET"
    /\ routes[1].pattern = PatUsersIdInt

\* C15: with GET /users/{id:int} registered, the dispatch of GET /users/42
\* resolves to that route and its parameters are exactly id, bound to the
\* characters "42" of the path, not to a number; the dispatch of GET
\* /users/abc resolves to no route.
C15_IntRoundTrip ==
    \A r \in Requests :
        ResolvedAgainstInt(r) =>
            /\ req[r].path = PathOf(<<users, n42>>) =>
                   /\ match[r].matched
                   /\ match[r].route = 1
                   /\ DOMAIN match[r].params = {"id"}
                   /\ match[r].params["id"] = <<"4", "2">>
            /\ req[r].path = PathOf(<<users, abc>>) => ~match[r].matched

\* GET /users/42 has been dispatched against the registered route and has
\* completed with the parameter id bound.
C15_Witness ==
    /\ ResolvedAgainstInt("r1")
    /\ req["r1"].path = PathOf(<<users, n42>>)
    /\ match["r1"].params = ("id" :> n42)
    /\ state["r1"] = "Completed"

\* The characters of the path that follow "/files/", the trailing slash
\* that the router strips left out.
AfterFiles(path) ==
    LET p == IF path[Len(path)] = Slash THEN SubSeq(path, 1, Len(path) - 1)
             ELSE path
    IN  SubSeq(p, Len(files) + 3, Len(p))

\* C16: when /files/*path matches a path, the parameter path is the only
\* one, its value is what follows "/files/" in the path, slashes included,
\* so that splitting it on "/" gives the remaining segments in their order;
\* for /files/a/b/c.txt it is "a/b/c.txt".
C16_WildcardJoinsRemainingSegments ==
    (/\ lastMatch # NoCall
     /\ lastMatch.result.matched
     /\ routes[lastMatch.result.route].pattern = PatFilesWild) =>
        /\ DOMAIN lastMatch.result.params = {"path"}
        /\ lastMatch.result.params["path"] = AfterFiles(lastMatch.path)
        /\ Split(lastMatch.result.params["path"]) = Tail(Segments(lastMatch.path))
        /\ Len(Segments(lastMatch.path)) >= 2
        /\ lastMatch.path = PathOf(<<files, segA, segB, ctxt>>) =>
               lastMatch.result.params["path"] =
                   <<"a", "/", "b", "/", "c", ".", "t", "x", "t">>

\* /files/a/b/c.txt has been resolved to the wildcard route.
C16_Witness ==
    /\ lastMatch # NoCall
    /\ lastMatch.path = PathOf(<<files, segA, segB, ctxt>>)
    /\ lastMatch.result.matched
    /\ routes[lastMatch.result.route].pattern = PatFilesWild

\* How many slashes the path ends with.
TrailingSlashCount(path) ==
    Cardinality({k \in 1..Len(path) :
                     \A j \in k..Len(path) : path[j] = Slash})

\* The path without the slashes it ends with.
Base(path) == SubSeq(path, 1, Len(path) - TrailingSlashCount(path))

\* C20: what resolve returns for p followed by one slash is what it returns
\* for p, for every path p that is not the root path and ends with no slash;
\* the root path is matched as the path without segments; and p followed by
\* two slashes has other segments than p and, when p resolves to a route,
\* another result.
C20_StripsExactlyOneTrailingSlash ==
    lastMatch # NoCall =>
        LET q == lastMatch.path
            p == Base(q)
            alone == resolve(routes, lastMatch.method, p)
        IN  /\ (q # RootPath /\ TrailingSlashCount(q) = 1) =>
                   lastMatch.result = alone
            /\ q = RootPath =>
                   /\ Segments(q) = <<>>
                   /\ lastMatch.result.matched =
                          (\E i \in 1..Len(routes) :
                               /\ routes[i].pattern = PatRoot
                               /\ routes[i].method = lastMatch.method)
            /\ (q # RootPath /\ TrailingSlashCount(q) = 2) =>
                   /\ Segments(q) = Append(Segments(p), <<>>)
                   /\ alone.matched => lastMatch.result # alone

\* /users/42/ has been resolved to the route that /users/42 resolves to,
\* with the parameter id bound to "42".
C20_Witness ==
    /\ lastMatch # NoCall
    /\ lastMatch.path = PathOf(<<users, n42>>) \o <<Slash>>
    /\ lastMatch.result.matched
    /\ lastMatch.result.params = ("id" :> n42)

\* Request r was dispatched without Authorization to the route of the
\* scenario, and its chain is A, B, C, H.
InScenario(r) ==
    /\ state[r] \in {"ChainExecuting", "Failed", "ErrorHandled", "Completed"}
    /\ req[r].authorization = "none"
    /\ match[r].matched
    /\ Len(chain[r]) = 4
    /\ chain[r][1] = Element(ScenarioA, "global")
    /\ chain[r][2] = Element(ScenarioB, "global")
    /\ chain[r][3] = Element(ScenarioC, "local")
    /\ chain[r][4].scope = "handler"

\* A-pre, B-pre, C, B-post, A-post.
ScenarioOrder ==
    <<Event(1, "pre"), Event(2, "pre"), Event(3, "pre"), Event(2, "post"),
      Event(1, "post")>>

\* C17: in the scenario the execution is at every moment a beginning of
\* A-pre, B-pre, C, B-post, A-post, so H never executes; the dispatch
\* completes; and when it has completed the whole order has run, the status
\* is 401 and the header that A adds is on the final response.
C17_ScenarioShortCircuitsAtC ==
    /\ [](\A r \in Requests :
              InScenario(r) =>
                  /\ Len(Trace(r)) <= Len(ScenarioOrder)
                  /\ Trace(r) = SubSeq(ScenarioOrder, 1, Len(Trace(r)))
                  /\ state[r] = "Completed" =>
                         /\ Trace(r) = ScenarioOrder
                         /\ final[r].status = 401
                         /\ "X-Frame-Options" \in final[r].headers)
    /\ \A r \in Requests : InScenario(r) ~> (InScenario(r) /\ state[r] = "Completed")

\* The request without Authorization has completed in the scenario.
C17_Witness ==
    /\ InScenario("r1")
    /\ state["r1"] = "Completed"
    /\ final["r1"].status = 401

\* The handler of request r raised a failure without a status code, and it
\* reached the Error Boundary: no middleware turned it into a response.
UncaughtPlainFailure(r) ==
    /\ state[r] \in {"ErrorHandled", "Completed"}
    /\ HasEvent(r, Last(r), "handler")
    /\ failure[r].kind = "runtime_error"
    /\ failure[r].statusCode = 0

LogCallsOf(r) == {k \in DOMAIN logger : logger[k].request = r}

C19_FinalizedBuilderRefusesCalls ==
    /\ [](builder.sends <= 1 /\ (builder.sent <=> builder.sends = 1))
    /\ [][builder.sent =>
              /\ builder'.error = "FinalizedError"
              /\ builder'.status = builder.status
              /\ builder'.headers = builder.headers
              /\ builder'.body = builder.body
              /\ builder'.sent
              /\ builder'.sends = builder.sends]_vars

\* A call on a builder that was sent with a status code, a header and a
\* body has failed.
C19_Witness ==
    /\ builder.sent
    /\ builder.error = "FinalizedError"
    /\ builder.status = 404
    /\ builder.headers = {"Content-Type"}
    /\ builder.body = "Not Found"

\* /products[/{category}] is registered for GET.
OptionalRegistered ==
    \E i \in 1..Len(routes) :
        routes[i].method = "GET" /\ routes[i].pattern = PatProductsOptional

\* C21: with /products[/{category}] registered, /products and /products/x
\* both resolve to it; for /products no parameter is bound, so hasParam of
\* category is false, for /products/x category is "x"; a path with a segment
\* after the optional one does not resolve to it.
C21_OptionalSegmentMayBeOmitted ==
    (lastMatch # NoCall /\ lastMatch.method = "GET" /\ OptionalRegistered) =>
        LET res == lastMatch.result
            toOptional == /\ res.matched
                          /\ routes[res.route].pattern = PatProductsOptional
        IN  /\ lastMatch.path = PathOf(<<products>>) =>
                   /\ toOptional
                   /\ ~hasParam(res.params, "category")
                   /\ res.params = NoParams
            /\ lastMatch.path = PathOf(<<products, segX>>) =>
                   /\ toOptional
                   /\ hasParam(res.params, "category")
                   /\ res.params = ("category" :> <<"x">>)
            /\ lastMatch.path \notin {PathOf(<<products>>),
                                      PathOf(<<products, segX>>)} => ~toOptional

\* /products has been resolved to the route with the optional segment, and
\* nothing is bound.
C21_Witness ==
    /\ lastMatch # NoCall
    /\ lastMatch.path = PathOf(<<products>>)
    /\ lastMatch.result.matched
    /\ routes[lastMatch.result.route].pattern = PatProductsOptional
    /\ ~hasParam(lastMatch.result.params, "category")

\* The transitions of the state machine as it is listed.
ListedTransitions ==
    {<<"Matching", "Matched">>, <<"Matching", "Unmatched">>,
     <<"Matched", "ChainExecuting">>, <<"ChainExecuting", "Completed">>,
     <<"ChainExecuting", "Failed">>, <<"Failed", "ErrorHandled">>,
     <<"ErrorHandled", "Completed">>}

\* A request comes into being in Matching.
Arrival == {<<"Idle", "Matching">>}

WroteUser(r, j) ==
    /\ chain[r][j].kind = "UserResolver"
    /\ findUserByToken(req[r].authorization) # NoUser

\* C23: every chain element that ran after a middleware which attached the
\* user received a request with that user, the handler included; an
\* element receives no attribute that no element before it in the same
\* dispatch attached, so a dispatch begins without attributes whatever the
\* dispatches before it attached.
C23_AttributesFlowDownstreamOnly ==
    \A r \in Requests :
        \A i \in 1..Len(seen[r]) :
            /\ (\E j \in 1..(i - 1) : WroteUser(r, j)) =>
                   /\ "user" \in DOMAIN seen[r][i]
                   /\ seen[r][i]["user"] = findUserByToken(req[r].authorization)
            /\ ~(\E j \in 1..(i - 1) : WroteUser(r, j)) =>
                   seen[r][i] = NoAttributes

\* The handler of r2 ran with the user that a middleware of its chain
\* attached and r2 has completed; the first chain element of r1 has
\* started, and it received no attribute.
C23_Witness ==
    /\ state["r2"] = "Completed"
    /\ Len(seen["r2"]) = Len(chain["r2"])
    /\ chain["r2"][Len(chain["r2"])].scope = "handler"
    /\ seen["r2"][Len(seen["r2"])] = [k \in {"user"} |-> "alice"]
    /\ state["r1"] = "ChainExecuting"
    /\ Len(seen["r1"]) = 1
    /\ seen["r1"][1] = NoAttributes
    /\ req["r1"].authorization = "none"

\* The segment of the pattern at position k, an optional one unwrapped.
Inner(pattern, k) ==
    IF pattern[k].tag = "Optional" THEN pattern[k].inner ELSE pattern[k]

\* The pattern fits the path segments position by position: a literal is
\* the segment, a named segment satisfies its constraint, and only optional
\* segments have no segment of the path.
StructurallyMatches(pattern, segs) ==
    /\ Len(segs) <= Len(pattern)
    /\ \A k \in 1..Len(pattern) :
           IF k > Len(segs) THEN pattern[k].tag = "Optional"
           ELSE CASE Inner(pattern, k).tag = "Literal" ->
                       segs[k] = Inner(pattern, k).text
                  [] Inner(pattern, k).tag = "Named" ->
                       ConstraintOK(Inner(pattern, k).constraint, segs[k])
                  [] OTHER -> FALSE

\* The positions of the named segments of the pattern that the path has.
NamedPositions(pattern, segs) ==
    {k \in 1..Len(segs) : Inner(pattern, k).tag = "Named"}

\* C24: a MatchResult with matched=true names a route of the table whose
\* method is the method of the call and whose pattern fits the path; its
\* parameters are the named segments of that route that the path contains,
\* each bound to the text of its segment, and nothing else.
C24_MatchResultIsOfTheReturnedRoute ==
    (lastMatch # NoCall /\ lastMatch.result.matched) =>
        LET res == lastMatch.result
            segs == Segments(lastMatch.path)
        IN  /\ res.route \in 1..Len(routes)
            /\ routes[res.route].method = lastMatch.method
            /\ StructurallyMatches(routes[res.route].pattern, segs)
            /\ DOMAIN res.params =
                   {Inner(routes[res.route].pattern, k).identifier :
                        k \in NamedPositions(routes[res.route].pattern, segs)}
            /\ \A k \in NamedPositions(routes[res.route].pattern, segs) :
                   res.params[Inner(routes[res.route].pattern, k).identifier] = segs[k]

\* /users/42 was resolved to /users/{id}, registered after
\* /users/{userId}/posts/{postId}, which binds userId before it fails; the
\* parameters are id alone.
C24_Witness ==
    /\ lastMatch # NoCall
    /\ lastMatch.path = PathOf(<<users, n42>>)
    /\ lastMatch.result.matched
    /\ lastMatch.result.route = 2
    /\ routes[1].pattern = PatUserPosts
    /\ routes[1].method = lastMatch.method
    /\ routes[2].pattern = PatUsersId
    /\ lastMatch.result.params = [k \in {"id"} |-> n42]

\* The status code that the failure of a handler of the kind identifies, 0
\* when it identifies none.
CarriedStatus(kind) ==
    CASE kind = "throwHttp"      -> 404
      [] kind = "throwPayment"   -> 402
      [] kind = "throwForbidden" -> 403
      [] OTHER                   -> 0

\* The Error Boundary has answered the failure of request r.
Answered(r) ==
    /\ state[r] \in {"ErrorHandled", "Completed"}
    /\ failure[r] # NoFailure

\* C25: the response of the Error Boundary has the status code that the
\* failure carries, and 500 when the failure carries none, whatever its
\* kind: an exception without a status code, a database exception, a
\* handler that wrote no response.
C25_CarriedStatusElseServerClass ==
    \A r \in Requests :
        Answered(r) =>
            LET h == chain[r][Len(chain[r])]
            IN  /\ failure[r].statusCode # 0 =>
                       response[r].status = failure[r].statusCode
                /\ failure[r].statusCode = 0 => response[r].status = 500
                /\ (h.scope = "handler" /\ CarriedStatus(h.kind) # 0) =>
                       response[r].status = CarriedStatus(h.kind)
                /\ (h.scope = "handler" /\ CarriedStatus(h.kind) = 0) =>
                       response[r].status = 500
                /\ state[r] = "Completed" => final[r].status = response[r].status

\* A failure that carries 402 has become the final response.
C25_Witness ==
    \E r \in Requests :
        /\ Answered(r)
        /\ state[r] = "Completed"
        /\ failure[r].kind = "PaymentFailedException"
        /\ final[r].status = 402

\* The GET routes of the table that have the pattern.
GetRoutes(pattern) ==
    {i \in 1..Len(routes) :
        routes[i].method = "GET" /\ routes[i].pattern = pattern}

\* /users/{id} is registered with .priority(10) and /users/admins with
\* .priority(-5), and GET /users/admins was resolved.
PrioritiesOverridden ==
    /\ Called
    /\ lastMatch.method = "GET"
    /\ lastMatch.path = PathOf(<<users, admins>>)
    /\ GetRoutes(PatUsersId) # {}
    /\ GetRoutes(PatUsersAdmins) # {}
    /\ \A i \in GetRoutes(PatUsersId) : routes[i].priority = 10
    /\ \A i \in GetRoutes(PatUsersAdmins) : routes[i].priority = -5

IntRouteFirst ==
    /\ Called
    /\ lastMatch.method = "GET"
    /\ routes # <<>>
    /\ routes[1].method = "GET"
    /\ routes[1].pattern = PatUsersIdInt
    /\ Len(Segments(lastMatch.path)) = 2

\* The segment of the resolved path that stands at the place of id.
IdSegment == Segments(lastMatch.path)[2]

DigitsOnly(seg) == seg # <<>> /\ \A k \in 1..Len(seg) : seg[k] \in Digits

SignedDigits(seg) ==
    \/ DigitsOnly(seg)
    \/ Len(seg) > 1 /\ seg[1] = "-" /\ DigitsOnly(Tail(seg))

ToIntRoute == lastMatch.result.matched /\ lastMatch.result.route = 1

\* C27 (as stated): the int constraint accepts a segment iff it is a
\* non-empty run of decimal digits optionally preceded by one "-", so that
\* /users/{id:int} matches /users/-42 as well as /users/42.
C27_IntAcceptsLeadingMinus ==
    IntRouteFirst => (ToIntRoute <=> SignedDigits(IdSegment))

\* C27 (amended): the int constraint accepts a segment iff it is a non-empty
\* run of decimal digits: /users/{id:int} matches /users/42 and does not
\* match /users/-42, /users/4-2, /users/- or /users/abc.
C27_IntAcceptsDigitsOnly ==
    IntRouteFirst =>
        /\ ToIntRoute <=> DigitsOnly(IdSegment)
        /\ ToIntRoute => lastMatch.result.params = ("id" :> IdSegment)

\* /users/-42 was resolved against /users/{id:int} alone and did not match.
C27_Witness ==
    /\ IntRouteFirst
    /\ \A i \in 1..Len(routes) : routes[i].pattern = PatUsersIdInt
    /\ lastMatch.path = PathOf(<<users, minus42>>)
    /\ lastMatch.result = Unresolved

\* The handler of the dispatch of r ran and threw.
HandlerThrew(r) ==
    /\ chain[r] # <<>>
    /\ chain[r][Last(r)].scope = "handler"
    /\ chain[r][Last(r)].kind \in {"throwPlain", "throwHttp", "throwDatabase"}
    /\ HasEvent(r, Last(r), "handler")

\* The chain positions of the middleware that catches and answers.
Catchers(r) ==
    {i \in 1..(Last(r) - 1) : chain[r][i].kind = "ErrorHandling"}

Nearest(r) == CHOOSE c \in Catchers(r) : \A i \in Catchers(r) : i <= c

Events(r, what) == {k \in DOMAIN log[r] : log[r][k].what = what}

\* C28: a failure of the handler is handled by the nearest enclosing
\* middleware that catches and answers; its response passes through the
\* post-processing of every middleware before it and becomes the final
\* response, the Error Boundary is not invoked; a middleware that catches and
\* re-throws lets the failure continue outward, to the next catcher or, when
\* there is none, to the Dispatcher and the Error Boundary.
C28_NearestCatcherAnswers ==
    \A r \in Requests :
        HandlerThrew(r) =>
            /\ state[r] \in {"Failed", "ErrorHandled"} => Catchers(r) = {}
            /\ (state[r] = "Completed" /\ Catchers(r) # {}) =>
                   LET c == Nearest(r)
                   IN  /\ HasEvent(r, c, "catch")
                       /\ Cardinality(Events(r, "catch")) = 1
                       /\ final[r].status = 500
                       /\ final[r].by = At(c)
                       /\ final[r].body =
                              IF chain[r][Last(r)].kind = "throwDatabase"
                              THEN "A database error occurred"
                              ELSE "An unexpected error occurred"
                       /\ ("X-Frame-Options" \in final[r].headers) <=>
                              (\E j \in 1..(c - 1) :
                                   chain[r][j].kind = "SecurityHeaders")
                       /\ \A j \in 1..(c - 1) :
                              /\ HasEvent(r, j, "post")
                              /\ ~HasEvent(r, j, "report")
                       /\ \A j \in (c + 1)..(Last(r) - 1) :
                              /\ ~HasEvent(r, j, "post")
                              /\ chain[r][j].kind = "ErrorReporting" =>
                                     HasEvent(r, j, "report")
                       /\ failure[r] = NoFailure
                       /\ Cardinality(LogCallsOf(r)) = 1
            /\ (state[r] = "Completed" /\ Catchers(r) = {}) =>
                   /\ final[r].by = "ErrorBoundary"
                   /\ failure[r] = Thrown(chain[r][Last(r)].kind)
                   /\ Events(r, "catch") = {}
                   /\ Events(r, "post") = {}
                   /\ \A j \in 1..(Last(r) - 1) :
                          chain[r][j].kind = "ErrorReporting" =>
                              HasEvent(r, j, "report")

\* A middleware re-threw, the catcher before it answered, and the response
\* is final.
C28_Witness ==
    \E r \in Requests :
        /\ HandlerThrew(r)
        /\ state[r] = "Completed"
        /\ Last(r) = 3
        /\ chain[r][1].kind = "ErrorHandling"
        /\ chain[r][2].kind = "ErrorReporting"
        /\ HasEvent(r, 2, "report")
        /\ final[r].by = At(1)

\* The participants that the broadcast call has to reach.
Recipients(msg) == msg.members \ {msg.sender}

\* Deliver was called once on each of the recipients and on nobody else.
ReachedAll(msg) ==
    \A p \in Connections :
        msg.delivered[p] = IF p \in Recipients(msg) THEN 1 ELSE 0

\* C29: under any interleaving of join, leave and broadcast calls, a
\* broadcast delivers the message exactly once to every participant that is
\* in the room when the broadcast runs and is not its sender, and never to
\* the sender or to a participant that is not in the room then; at most one
\* call is past its lock_guard at a time, and the participants do not change
\* while a broadcast runs.
C29_BroadcastReachesMembersOnce ==
    /\ Cardinality(room.inside) <= 1
    /\ ReachedAll(room.last)
    /\ \A c \in Connections :
           room.pc[c] = "broadcastLocked" =>
               LET msg == room.running[c]
               IN  /\ room.participants = msg.members
                   /\ \A p \in Connections :
                          /\ msg.delivered[p] <= 1
                          /\ p \notin Recipients(msg) => msg.delivered[p] = 0
                          /\ (p \in Recipients(msg) /\ p \in msg.visited) =>
                                 msg.delivered[p] = 1

\* A broadcast of c1 returned, which ran in a room of c1 and c2: it reached
\* c2 and nobody else, not c3, which is outside the room and calls join.
C29_Witness ==
    /\ room.last.sender = "c1"
    /\ room.last.members = {"c1", "c2"}
    /\ room.last.delivered = [p \in Connections |-> IF p = "c2" THEN 1 ELSE 0]
    /\ room.pc["c3"] = "join"
    /\ room.participants = {"c1", "c2"}

\* The tokens of the token store whose user has the role admin.
AdminTokens == {t \in DOMAIN tokenStore : "admin" \in tokenStore[t].roles}

\* The Authorization header is "Bearer " followed by one of the tokens.
BearerOf(tokens) ==
    \E t \in tokens :
        /\ Len(api.authorization) = 7 + Len(t)
        /\ \A k \in 1..7 : api.authorization[k] = BearerPrefix[k]
        /\ \A k \in 1..Len(t) : api.authorization[7 + k] = t[k]

\* C30: for DELETE /api/users/:id, deleteUser runs only for a request whose
\* Authorization header is "Bearer " followed by a token of the token store
\* whose user has the role admin; a missing, malformed or unknown token
\* gives 401 and a valid token without the role admin gives 403, and in both
\* cases deleteUser does not run and the stored users are those of the
\* arrival of the request.
C30_OnlyAdminsDelete ==
    /\ api.ran => BearerOf(AdminTokens)
    /\ api.users # api.arrival => (api.ran /\ api.pc \in {"done", "idle"})
    /\ api.pc = "done" =>
           IF ~BearerOf(DOMAIN tokenStore)
           THEN api.status = 401 /\ ~api.ran /\ api.users = api.arrival
           ELSE IF ~BearerOf(AdminTokens)
           THEN api.status = 403 /\ ~api.ran /\ api.users = api.arrival
           ELSE api.ran /\ api.status \in {200, 400, 404}

\* The token of the regular user was refused with 403 for a user that is
\* stored, and the user is still stored.
C30_Witness ==
    /\ api.pc = "done"
    /\ api.authorization = BearerPrefix \o user_token
    /\ api.status = 403
    /\ api.id = one
    /\ ~api.ran
    /\ api.users = <<1, 2>>

====
